---- MODULE Spec2Model ----
(***************************************************************************)
(* Model of the RAG subsystem of RUPAY_AGENT:                              *)
(*   core/offline_ingestion.py  (OfflineIngestion)                         *)
(*   core/online_retrieval.py   (OnlineRetrieval)                          *)
(*   core/rag_config.py         (configuration constants)                  *)
(*                                                                         *)
(* Texts are sequences of one-character strings.  The embedding model and  *)
(* the tokenizer are external libraries; they are modelled by small        *)
(* deterministic functions of the text (see Embed and Encode).             *)
(***************************************************************************)
EXTENDS Integers, Sequences, FiniteSets, TLC

(***************************************************************************)
(* Bounds of the model.                                                    *)
(***************************************************************************)
\* most vectors the in-memory index may hold before ingestion is disabled
MaxIndexed == 3
\* most save_index calls of one ingestion process
MaxSaves == 2
\* most chunks in a loaded metadata list (retrieval side)
MaxMeta == 3
\* largest k / top_k / max_tokens argument tried on the retrieval side
MaxK == 3
MaxBudget == 4
\* chunking on its own: most tokens of a document, largest chunk_size and
\* overlap arguments, most windows followed of a call that does not end
MaxDocTokens == 5
MaxChunkSize == 4
MaxOverlap == 4
MaxWindows == 6
\* callers that use one loaded OnlineRetrieval at the same time, and most
\* vectors and records of the artifacts it loaded
MaxCallers == 2
MaxLoaded == 1
\* cleaning on its own: longest raw text, and how many times in a row
\* clean_text is applied to it
MaxTextLen == 5
MaxCleanings == 2
\* generation on its own: longest context handed to generate_answer
MaxContextLen == 3
\* the RupayRAG object: most chunks of a corpus it ingests or finds saved
MaxCorpus == 2

(***************************************************************************)
(* Configuration, core/rag_config.py.  The chunking sizes are scaled down  *)
(* (600 tokens -> 7, 50 characters -> 3) so that documents of a few tokens *)
(* exercise the same window arithmetic; the percentage is the source's.    *)
(***************************************************************************)
DEFAULT_CHUNK_SIZE == 7
CHUNK_OVERLAP_PERCENTAGE == 15
CHUNK_OVERLAP == (DEFAULT_CHUNK_SIZE * CHUNK_OVERLAP_PERCENTAGE) \div 100
MIN_CHUNK_LENGTH == 3
\* {'.pdf', '.txt'}, each extension a sequence of characters
SUPPORTED_FORMATS == {<<".","p","d","f">>, <<".","t","x","t">>}
\* retrieval and generation, scaled down as well (20 candidates -> 3,
\* 5 chunks -> 2); the budget keeps the source's proportion, 3000 = 5 * 600:
\* RERANK_TOP_K chunks of DEFAULT_CHUNK_SIZE tokens, 14 = 2 * 7
INITIAL_RETRIEVAL_K == 3
RERANK_TOP_K == 2
MAX_CONTEXT_TOKENS == 14
EMBEDDING_DIMENSION == 384
\* how many chunk texts RAGAgent.execute hands back, "documents[:3]"
REFERENCE_CHUNKS == 3
\* "for attempt in range(2)" in MainOrchestrator.chat
ROUTING_ATTEMPTS == 2
NO_CONTEXT_RESPONSE == "I don't have enough information to answer this question."

(***************************************************************************)
(* Characters.                                                             *)
(***************************************************************************)
LowerLetters ==
  {"a","b","c","d","e","f","g","h","i","j","k","l","m",
   "n","o","p","q","r","s","t","u","v","w","x","y","z"}
UpperLetters ==
  {"A","B","C","D","E","F","G","H","I","J","K","L","M",
   "N","O","P","Q","R","S","T","U","V","W","X","Y","Z"}
Letters == LowerLetters \cup UpperLetters
Digits == {"0","1","2","3","4","5","6","7","8","9"}
Whitespace == {" ", "\n"}
Newlines == {"\n"}
\* the punctuation clean_text keeps: . , ! ? ; : ( ) - ' "
KeptPunct == {".", ",", "!", "?", ";", ":", "(", ")", "-", "'", "\""}

\* \w of Python's re on str: letters, digits and the underscore
IsWordChar(c) == c \in Letters \cup Digits \cup {"_"}
IsSpace(c) == c \in Whitespace

\* str.lower() on one character
LowerChar(c) ==
  CASE c = "P" -> "p" [] c = "R" -> "r" [] c = "A" -> "a" [] c = "B" -> "b"
    [] c = "C" -> "c" [] c = "D" -> "d" [] c = "E" -> "e" [] c = "F" -> "f"
    [] c = "G" -> "g" [] c = "H" -> "h" [] c = "I" -> "i" [] c = "J" -> "j"
    [] c = "K" -> "k" [] c = "L" -> "l" [] c = "M" -> "m" [] c = "N" -> "n"
    [] c = "O" -> "o" [] c = "Q" -> "q" [] c = "S" -> "s" [] c = "T" -> "t"
    [] c = "U" -> "u" [] c = "V" -> "v" [] c = "W" -> "w" [] c = "X" -> "x"
    [] c = "Y" -> "y" [] c = "Z" -> "z"
    [] OTHER -> c

Lower(text) == [i \in 1..Len(text) |-> LowerChar(text[i])]

(***************************************************************************)
(* OfflineIngestion.clean_text                                             *)
(***************************************************************************)
\* re.sub(r'\s+', ' ', text): every maximal run of whitespace becomes " "
RECURSIVE CollapseWhitespace(_)
CollapseWhitespace(text) ==
  IF text = <<>> THEN <<>>
  ELSE IF IsSpace(Head(text))
       THEN IF Len(text) >= 2 /\ IsSpace(text[2])
            THEN CollapseWhitespace(Tail(text))
            ELSE <<" ">> \o CollapseWhitespace(Tail(text))
       ELSE <<Head(text)>> \o CollapseWhitespace(Tail(text))

\* re.sub(r'[^\w\s.,!?;:()\-\'\"]+', '', text)
StripSpecial(text) ==
  SelectSeq(text, LAMBDA c : IsWordChar(c) \/ IsSpace(c) \/ c \in KeptPunct)

\* str.strip()
RECURSIVE LStrip(_)
LStrip(text) ==
  IF text # <<>> /\ IsSpace(Head(text)) THEN LStrip(Tail(text)) ELSE text

RECURSIVE RStrip(_)
RStrip(text) ==
  IF text # <<>> /\ IsSpace(text[Len(text)])
  THEN RStrip(SubSeq(text, 1, Len(text) - 1)) ELSE text

Strip(text) == RStrip(LStrip(text))

clean_text(text) == Strip(StripSpecial(CollapseWhitespace(text)))

(***************************************************************************)
(* The tokenizer (tiktoken, cl100k_base).  A text is cut into pieces by    *)
(* the encoding's splitting pattern                                        *)
(*   '(?i:[sdmt]|ll|ve|re) | [^\r\n\p{L}\p{N}]?+\p{L}+ | \p{N}{1,3}        *)
(*   |  ?[^\s\p{L}\p{N}]++[\r\n]* | \s*[\r\n] | \s+(?!\S) | \s+            *)
(* and every piece counts as one token.  decode concatenates the pieces.   *)
(***************************************************************************)
Cls(c) ==
  IF c \in Letters THEN "L"
  ELSE IF c \in Digits THEN "N"
  ELSE IF c \in Newlines THEN "NL"
  ELSE IF c \in Whitespace THEN "S"
  ELSE "O"

\* number of consecutive characters of text, from position i on, whose class is in cs
RECURSIVE RunLen(_, _, _)
RunLen(text, i, cs) ==
  IF i <= Len(text) /\ Cls(text[i]) \in cs THEN 1 + RunLen(text, i + 1, cs) ELSE 0

\* position of the last newline among the first n characters (0: none)
RECURSIVE LastNewline(_, _)
LastNewline(text, n) ==
  IF n = 0 THEN 0
  ELSE IF Cls(text[n]) = "NL" THEN n ELSE LastNewline(text, n - 1)

\* length of the first piece of a non-empty text
PieceLen(text) ==
  LET c == text[1]
      n == Len(text)
      ws == RunLen(text, 1, {"S", "NL"})
      sp == IF c = " " THEN 1 ELSE 0
      punct == RunLen(text, sp + 1, {"O"})
  IN IF c = "'" /\ n >= 2 /\ LowerChar(text[2]) \in {"s", "d", "m", "t"} THEN 2
     ELSE IF c = "'" /\ n >= 3
               /\ <<LowerChar(text[2]), LowerChar(text[3])>>
                    \in {<<"l","l">>, <<"v","e">>, <<"r","e">>} THEN 3
     ELSE IF Cls(c) = "L" THEN RunLen(text, 1, {"L"})
     ELSE IF Cls(c) \in {"S", "O"} /\ RunLen(text, 2, {"L"}) > 0
          THEN 1 + RunLen(text, 2, {"L"})
     ELSE IF Cls(c) = "N"
          THEN (IF RunLen(text, 1, {"N"}) > 3 THEN 3 ELSE RunLen(text, 1, {"N"}))
     ELSE IF punct > 0 THEN sp + punct + RunLen(text, sp + punct + 1, {"NL"})
     ELSE IF LastNewline(text, ws) > 0 THEN LastNewline(text, ws)
     ELSE IF ws = n THEN ws
     ELSE IF ws >= 2 THEN ws - 1
     ELSE ws

RECURSIVE Encode(_)
Encode(text) ==
  IF text = <<>> THEN <<>>
  ELSE LET k == PieceLen(text)
       IN <<SubSeq(text, 1, k)>> \o Encode(SubSeq(text, k + 1, Len(text)))

RECURSIVE Decode(_)
Decode(tokens) ==
  IF tokens = <<>> THEN <<>> ELSE Head(tokens) \o Decode(Tail(tokens))

(***************************************************************************)
(* The embedding model (SentenceTransformer.encode): a fixed function of   *)
(* the text.  One integer coordinate stands for the 384 floats; the        *)
(* squared L2 distance of two embeddings is the square of the difference.  *)
(***************************************************************************)
Embed(text) == Len(SelectSeq(text, LAMBDA c : LowerChar(c) = "r"))

L2(u, v) == (u - v) * (u - v)

(***************************************************************************)
(* OfflineIngestion.chunk_by_tokens                                        *)
(***************************************************************************)
Min(a, b) == IF a <= b THEN a ELSE b

\* a bound of a Python slice on a list of n items: a negative one counts
\* from the end, and both ends are clipped to the list
SliceBound(i, n) == IF i < 0 THEN (IF i + n < 0 THEN 0 ELSE i + n) ELSE Min(i, n)

\* tokens[a:b] of Python, a and b 0-based, b exclusive
Slice(s, a, b) == SubSeq(s, SliceBound(a, Len(s)) + 1, SliceBound(b, Len(s)))

\* the text of the window that starts at start: decode(tokens[start:end])
WindowText(tokens, start, chunk_size) == Decode(Slice(tokens, start, start + chunk_size))

\* Mutation: chunk_by_tokens without the minimum-length test.
KeepsAnyChunk(chunk_text) == TRUE

\* "if len(chunk_text) >= MIN_CHUNK_LENGTH"
KeepsChunk(chunk_text) == Len(chunk_text) >= MIN_CHUNK_LENGTH

\* what one pass of the loop appends to chunks
WindowChunks(chunk_text) == IF KeepsChunk(chunk_text) THEN <<chunk_text>> ELSE <<>>

RECURSIVE ChunkLoop(_, _, _, _)
ChunkLoop(tokens, start, chunk_size, overlap) ==
  IF ~(start < Len(tokens)) THEN <<>>
  ELSE WindowChunks(WindowText(tokens, start, chunk_size))
       \o ChunkLoop(tokens, start + (chunk_size - overlap), chunk_size, overlap)

chunk_by_tokens(text, chunk_size, overlap) ==
  ChunkLoop(Encode(text), 0, chunk_size, overlap)

(***************************************************************************)
(* The documents on disk that ingestion is pointed at.  A file has a name, *)
(* an extension, is a regular file or not, can be read or not, and holds a *)
(* text.                                                                   *)
(***************************************************************************)
\* "r a r a r a r ab": 8 tokens, two windows
TextTwo == <<"r"," ","a"," ","r"," ","a"," ","r"," ","a"," ","r"," ","a","b">>
\* "Rp @ rp a a a a": 7 tokens once cleaned, one window kept and a second,
\* " a", too short to be kept
TextOne == <<"R","p"," ","@"," ","r","p"," ","a"," ","a"," ","a"," ","a">>
\* nothing survives cleaning: no chunk at all
TextNone == <<"@","\n">>

FilePool ==
  { [name |-> "two.TXT", ext |-> <<".","T","X","T">>, isfile |-> TRUE,  readable |-> TRUE,  text |-> TextTwo],
    [name |-> "one.pdf", ext |-> <<".","p","d","f">>, isfile |-> TRUE,  readable |-> TRUE,  text |-> TextOne],
    [name |-> "none.txt", ext |-> <<".","t","x","t">>, isfile |-> TRUE, readable |-> TRUE,  text |-> TextNone],
    [name |-> "bad.pdf", ext |-> <<".","p","d","f">>, isfile |-> TRUE,  readable |-> FALSE, text |-> <<>>],
    [name |-> "notes.md", ext |-> <<".","m","d">>, isfile |-> TRUE,  readable |-> TRUE,  text |-> TextOne],
    [name |-> "sub.txt", ext |-> <<".","t","x","t">>, isfile |-> FALSE, readable |-> FALSE, text |-> <<>>] }

\* os.path.splitext(...)[1].lower()
LowerExt(ext) == Lower(ext)

(***************************************************************************)
(* What the collaborators do during one ingest_document call: the          *)
(* embedding model may raise (step "embed"), and the tokenizer call of the *)
(* metadata loop may raise at the chunk with 0-based number `at` (step     *)
(* "meta").                                                                *)
(***************************************************************************)
NoFault == [step |-> "none", at |-> 0]
Faults ==
  {NoFault, [step |-> "embed", at |-> 0], [step |-> "meta", at |-> 0],
   [step |-> "meta", at |-> 1]}

(***************************************************************************)
(* State of one ingestion process (an OfflineIngestion instance, from its  *)
(* construction to the end or the death of the process).                   *)
(*   index, chunks_metadata  the in-memory FAISS index (its vectors, in    *)
(*                           order) and the metadata list                  *)
(*   diskIndex, diskMeta     the two artifact files, VECTOR_INDEX_FILE and *)
(*                           METADATA_FILE: exists, complete (written to   *)
(*                           its end), gen (the number of the save_index   *)
(*                           call that wrote it), data                     *)
(*   savePc                  where save_index stands                       *)
(*   saves                   how many save_index calls have begun          *)
(*   alive                   the process has not died                      *)
(*   result                  the last operation, the files and faults it   *)
(*                           met, and what it returned or raised           *)
(***************************************************************************)
VARIABLES index, chunks_metadata, diskIndex, diskMeta, savePc, saves, alive, result

ingestVars == <<index, chunks_metadata, diskIndex, diskMeta, savePc, saves, alive, result>>

(***************************************************************************)
(* State of one OnlineRetrieval instance and of the calls made on it.      *)
(*   r_index, r_metadata   self.index (vectors), self.chunks_metadata      *)
(*   r_stage               which method returned last                      *)
(*   r_question            the question of the calls                       *)
(*   r_candidates          what retrieve_initial_candidates returned       *)
(*   r_top_k, r_ranked     argument and return of rerank_candidates        *)
(*   r_max_tokens, r_context  argument and return of construct_context     *)
(***************************************************************************)
VARIABLES r_index, r_metadata, r_stage, r_question, r_candidates, r_top_k, r_ranked,
          r_max_tokens, r_context

retrievalVars == <<r_index, r_metadata, r_stage, r_question, r_candidates, r_top_k, r_ranked,
                   r_max_tokens, r_context>>

(***************************************************************************)
(* State of one chunk_by_tokens call, followed pass by pass of its loop.   *)
(*   c_tokens               tokens, the encoded text                       *)
(*   c_chunk_size, c_overlap  the arguments                                *)
(*   c_start, c_chunks      the loop's variables                           *)
(*   c_windows              the windows the loop has gone through: where   *)
(*                          each started and stopped (0-based, stop        *)
(*                          exclusive), and whether its chunk was kept     *)
(*   c_pc                   "idle", "loop", "done" (the call returned)     *)
(***************************************************************************)
VARIABLES c_tokens, c_chunk_size, c_overlap, c_start, c_chunks, c_windows, c_pc

chunkVars == <<c_tokens, c_chunk_size, c_overlap, c_start, c_chunks, c_windows, c_pc>>

(***************************************************************************)
(* State of the retrieve calls that several callers make on one loaded     *)
(* OnlineRetrieval (r_index, r_metadata).                                  *)
(*   calls      for each caller, where its retrieve call stands and the    *)
(*              call's local variables                                     *)
(*   returned   what the calls that are over handed back                   *)
(*   is_offline_ready  RupayRAG found both artifact files                  *)
(***************************************************************************)
VARIABLES calls, returned, is_offline_ready

serveVars == <<calls, returned, is_offline_ready>>

(***************************************************************************)
(* State of a text put through clean_text once and again.                  *)
(*   x_text     the raw text                                               *)
(*   x_cleaned  what the successive clean_text calls returned              *)
(***************************************************************************)
VARIABLES x_text, x_cleaned

cleanVars == <<x_text, x_cleaned>>

(***************************************************************************)
(* State of one RAGGeneration and its model.                               *)
(*   g_context    the context of the generate_answer call                  *)
(*   g_result     what the call handed back                                *)
(*   g_llm_calls  how many times the model has been invoked                *)
(*   g_pc         "new" before the call, "done" after it                   *)
(***************************************************************************)
VARIABLES g_context, g_result, g_llm_calls, g_pc

genVars == <<g_context, g_result, g_llm_calls, g_pc>>

(***************************************************************************)
(* State of one OnlineRetrieval.retrieve call on the loaded instance       *)
(* (r_index, r_metadata).                                                  *)
(*   t_question, t_return_metadata  the arguments of the call              *)
(*   t_result                       the dictionary it returned             *)
(*   t_pc                           "new" before the call, then "done" or  *)
(*                                  "raised"                               *)
(***************************************************************************)
VARIABLES t_question, t_return_metadata, t_result, t_pc

callVars == <<t_question, t_return_metadata, t_result, t_pc>>

(***************************************************************************)
(* State of one RupayRAG object, the RAGAgent that holds it, and the two   *)
(* artifact files.                                                         *)
(*   index_file, metadata_file  VECTOR_INDEX_FILE and METADATA_FILE:       *)
(*                     exists, what they hold, and gen, the number of the  *)
(*                     save_index call that wrote them (0: before the      *)
(*                     object was constructed)                             *)
(*   rag_pc            "unborn" before RupayRAG() is called, "alive" once  *)
(*                     it has returned, "failed" if it raised              *)
(*   retrieval, generation  self.retrieval and self.generation: loaded or  *)
(*                     None; self.is_offline_ready is is_offline_ready     *)
(*   save_begun, save_completed  the save_index calls begun, and the       *)
(*                     number of the latest one that wrote both files      *)
(*   outcome           what the last call returned or raised               *)
(***************************************************************************)
VARIABLES index_file, metadata_file, rag_pc, retrieval, generation, save_begun,
          save_completed, outcome

pipeVars == <<index_file, metadata_file, rag_pc, retrieval, generation, save_begun,
              save_completed, outcome>>

(***************************************************************************)
(* One MainOrchestrator.chat call:                                         *)
(*   m_user_query     the query chat was called with                       *)
(*   m_current_query  the query of the next routing attempt                *)
(*   m_attempt        the loop variable of "for attempt in range(2)"       *)
(*   m_content        the routing content, NoContent while it is None      *)
(*   m_error_msg      the message of the exception last caught             *)
(*   m_routed         the queries handed to the routing LLM so far         *)
(*   m_pc             where the call stands                                *)
(*   m_reply          what chat returned, or the exception it raised       *)
(***************************************************************************)
VARIABLES m_user_query, m_current_query, m_attempt, m_content, m_error_msg, m_routed,
          m_pc, m_reply

chatVars ==
  <<m_user_query, m_current_query, m_attempt, m_content, m_error_msg, m_routed, m_pc, m_reply>>

NoFile == [exists |-> FALSE, complete |-> TRUE, gen |-> 0, data |-> <<>>]
WholeFile(g, d) == [exists |-> TRUE, complete |-> TRUE, gen |-> g, data |-> d]
\* a file opened for writing and not yet written to its end
OpenedFile(g) == [exists |-> TRUE, complete |-> FALSE, gen |-> g, data |-> <<>>]

NoResult == [op |-> "none", files |-> <<>>, faults |-> <<>>, raised |-> FALSE,
             stats |-> <<>>, attempted |-> <<>>, caught |-> <<>>, lost |-> FALSE]

(***************************************************************************)
(* OfflineIngestion.ingest_document, on an index and a metadata list.      *)
(***************************************************************************)
RECURSIVE SumSeq(_)
SumSeq(s) == IF s = <<>> THEN 0 ELSE Head(s) + SumSeq(Tail(s))

Outcome(idx, meta, raised, stats) ==
  [index |-> idx, chunks_metadata |-> meta, raised |-> raised, stats |-> stats]

\* Steps 2 to 4 and the token counts of step 6 are pure functions of the
\* file's text; they are tabulated once per file of the pool.
PreparedChunks(chunks) ==
  [chunks |-> chunks,
   embeddings |-> [i \in 1..Len(chunks) |-> Embed(chunks[i])],
   token_counts |-> [i \in 1..Len(chunks) |-> Len(Encode(chunks[i]))]]

Prepared ==
  [file \in FilePool |->
     PreparedChunks(chunk_by_tokens(clean_text(file.text), DEFAULT_CHUNK_SIZE, CHUNK_OVERLAP))]

MetaRecord(document_id, i, chunk, token_count) ==
  [document_id |-> document_id, chunk_index |-> i, chunk_text |-> chunk,
   token_count |-> token_count, char_count |-> Len(chunk)]

\* the return statement: the stats of the n records just appended
DocStats(document_id, n, meta) ==
  [document_id |-> document_id, num_chunks |-> n,
   total_tokens |-> SumSeq([i \in 1..n |-> meta[Len(meta) - n + i].token_count])]

\* step 6, the metadata loop, which stops where the tokenizer raises
StoreMetadata(idx2, meta, document_id, prep, done) ==
  Outcome(idx2,
          meta \o [i \in 1..done |->
                     MetaRecord(document_id, i - 1, prep.chunks[i], prep.token_counts[i])],
          done < Len(prep.chunks),
          <<>>)

WithStats(r, document_id, n) ==
  IF r.raised THEN r
  ELSE [r EXCEPT !.stats = <<DocStats(document_id, n, r.chunks_metadata)>>]

\* steps 4 to 6 and the return, on the chunks of steps 2 and 3
IngestChunks(idx, meta, document_id, prep, fault) ==
  IF fault.step = "embed"
  THEN Outcome(idx, meta, TRUE, <<>>)                  \* generate_embeddings raises
  ELSE IF Len(prep.chunks) = 0
  THEN Outcome(idx, meta, TRUE, <<>>)                  \* index.add of an empty array raises
  ELSE WithStats(
         StoreMetadata(idx \o prep.embeddings, meta, document_id, prep,
                       IF fault.step = "meta" THEN Min(fault.at, Len(prep.chunks))
                       ELSE Len(prep.chunks)),
         document_id, Len(prep.chunks))

ingest_document(idx, meta, file, fault) ==
  IF LowerExt(file.ext) \notin SUPPORTED_FORMATS \/ ~file.isfile \/ ~file.readable
  THEN Outcome(idx, meta, TRUE, <<>>)                  \* load_document raises
  ELSE IngestChunks(idx, meta, file.name, Prepared[file], fault)

(***************************************************************************)
(* OfflineIngestion.ingest_directory: the loop over os.listdir.            *)
(* acc: index, chunks_metadata, stats, attempted, caught, raised.          *)
(***************************************************************************)
\* one pass of the try/except around ingest_document
TryIngest(acc, name, r) ==
  [index |-> r.index, chunks_metadata |-> r.chunks_metadata,
   stats |-> acc.stats \o r.stats,
   attempted |-> Append(acc.attempted, name),
   caught |-> IF r.raised THEN Append(acc.caught, name) ELSE acc.caught,
   raised |-> FALSE]

\* Mutation: the loop without its try/except. The first ingest_document that
\* raises ends the call, and the exception reaches the caller.
Uncaught(acc, r) == [acc EXCEPT !.raised = r.raised, !.caught = <<>>]

DirStepUncaught(acc, file, fault) ==
  IF acc.raised THEN acc
  ELSE IF LowerExt(file.ext) \in SUPPORTED_FORMATS /\ file.isfile
  THEN Uncaught(TryIngest(acc, file.name,
                          ingest_document(acc.index, acc.chunks_metadata, file, fault)),
                ingest_document(acc.index, acc.chunks_metadata, file, fault))
  ELSE acc

DirStep(acc, file, fault) ==
  IF LowerExt(file.ext) \in SUPPORTED_FORMATS /\ file.isfile
  THEN TryIngest(acc, file.name,
                 ingest_document(acc.index, acc.chunks_metadata, file, fault))
  ELSE acc

RECURSIVE ingest_directory(_, _, _)
ingest_directory(acc, dir, faults) ==
  IF dir = <<>> THEN acc
  ELSE ingest_directory(DirStep(acc, Head(dir), Head(faults)), Tail(dir), Tail(faults))

\* The directories ingest_directory is pointed at, as os.listdir lists them.
FileNamed(name) == CHOOSE f \in FilePool : f.name = name
Dirs ==
  { <<>>,
    <<FileNamed("bad.pdf"), FileNamed("one.pdf")>>,
    <<FileNamed("two.TXT"), FileNamed("notes.md"), FileNamed("one.pdf")>>,
    <<FileNamed("one.pdf"), FileNamed("sub.txt"), FileNamed("none.txt")>>,
    <<FileNamed("none.txt"), FileNamed("two.TXT")>> }

\* the faults that can show while a file is ingested: none unless its chunks
\* reach the embedding model, and none in the loop past its last chunk
FaultsFor(file) ==
  IF LowerExt(file.ext) \in SUPPORTED_FORMATS /\ file.isfile /\ file.readable
  THEN {f \in Faults : f.step = "meta" => f.at < Len(Prepared[file].chunks)}
  ELSE {NoFault}

DirFaults(dir) ==
  {fs \in [1..Len(dir) -> Faults] : \A i \in 1..Len(dir) : fs[i] \in FaultsFor(dir[i])}

(***************************************************************************)
(* Actions of the ingestion process.                                       *)
(***************************************************************************)
IngestInit ==
  /\ index = <<>>
  /\ chunks_metadata = <<>>
  /\ diskIndex = NoFile
  /\ diskMeta = NoFile
  /\ savePc = "idle"
  /\ saves = 0
  /\ alive = TRUE
  /\ result = NoResult

\* the call returns or raises: r is what it left in memory and handed back
Returns(op, files, faults, r, attempted, caught) ==
  /\ Len(r.index) <= MaxIndexed
  /\ index' = r.index
  /\ chunks_metadata' = r.chunks_metadata
  /\ result' = [op |-> op, files |-> files, faults |-> faults, raised |-> r.raised,
                stats |-> r.stats, attempted |-> attempted, caught |-> caught,
                lost |-> FALSE]

\* Mutation: ingest_document made durable, writing both artifact files
\* before it returns.
IngestDocumentSaving(file, fault) ==
  /\ alive
  /\ savePc = "idle"
  /\ Returns("ingest_document", <<file>>, <<fault>>,
             ingest_document(index, chunks_metadata, file, fault), <<file.name>>, <<>>)
  /\ diskIndex' = WholeFile(saves, index')
  /\ diskMeta' = WholeFile(saves, chunks_metadata')
  /\ UNCHANGED <<savePc, saves, alive>>
  /\ UNCHANGED <<retrievalVars, chunkVars, serveVars, cleanVars, genVars, callVars, pipeVars, chatVars>>

IngestDocument(file, fault) ==
  /\ alive
  /\ savePc = "idle"
  /\ Returns("ingest_document", <<file>>, <<fault>>,
             ingest_document(index, chunks_metadata, file, fault), <<file.name>>, <<>>)
  /\ UNCHANGED <<diskIndex, diskMeta, savePc, saves, alive>>
  /\ UNCHANGED <<retrievalVars, chunkVars, serveVars, cleanVars, genVars, callVars, pipeVars, chatVars>>

DirReturns(dir, faults, r) ==
  Returns("ingest_directory", dir, faults, r, r.attempted, r.caught)

IngestDirectory(dir, faults) ==
  /\ alive
  /\ savePc = "idle"
  /\ DirReturns(dir, faults,
                ingest_directory(
                  [index |-> index, chunks_metadata |-> chunks_metadata, stats |-> <<>>,
                   attempted |-> <<>>, caught |-> <<>>, raised |-> FALSE],
                  dir, faults))
  /\ UNCHANGED <<diskIndex, diskMeta, savePc, saves, alive>>
  /\ UNCHANGED <<retrievalVars, chunkVars, serveVars, cleanVars, genVars, callVars, pipeVars, chatVars>>

(***************************************************************************)
(* OfflineIngestion.save_index, in the steps a crash can separate:         *)
(* faiss.write_index opens VECTOR_INDEX_FILE for writing (the old content  *)
(* is gone) and writes it; open(METADATA_FILE, 'wb') does the same for the *)
(* metadata and pickle.dump writes it.                                     *)
(***************************************************************************)
SaveOpenIndex ==
  /\ alive
  /\ savePc = "idle"
  /\ saves < MaxSaves
  /\ saves' = saves + 1
  /\ diskIndex' = OpenedFile(saves + 1)
  /\ savePc' = "index_open"
  /\ result' = [NoResult EXCEPT !.op = "save_index"]
  /\ UNCHANGED <<index, chunks_metadata, diskMeta, alive>>
  /\ UNCHANGED <<retrievalVars, chunkVars, serveVars, cleanVars, genVars, callVars, pipeVars, chatVars>>

SaveWriteIndex ==
  /\ alive
  /\ savePc = "index_open"
  /\ diskIndex' = WholeFile(saves, index)
  /\ savePc' = "index_written"
  /\ UNCHANGED <<index, chunks_metadata, diskMeta, saves, alive, result>>
  /\ UNCHANGED <<retrievalVars, chunkVars, serveVars, cleanVars, genVars, callVars, pipeVars, chatVars>>

SaveOpenMeta ==
  /\ alive
  /\ savePc = "index_written"
  /\ diskMeta' = OpenedFile(saves)
  /\ savePc' = "meta_open"
  /\ UNCHANGED <<index, chunks_metadata, diskIndex, saves, alive, result>>
  /\ UNCHANGED <<retrievalVars, chunkVars, serveVars, cleanVars, genVars, callVars, pipeVars, chatVars>>

SaveWriteMeta ==
  /\ alive
  /\ savePc = "meta_open"
  /\ diskMeta' = WholeFile(saves, chunks_metadata)
  /\ savePc' = "idle"
  /\ UNCHANGED <<index, chunks_metadata, diskIndex, saves, alive, result>>
  /\ UNCHANGED <<retrievalVars, chunkVars, serveVars, cleanVars, genVars, callVars, pipeVars, chatVars>>

\* The process dies, at any point; what it held in memory is gone.
Crash ==
  /\ alive
  /\ alive' = FALSE
  /\ index' = <<>>
  /\ chunks_metadata' = <<>>
  \* lost: the dead process held chunks that no artifact file holds
  /\ result' = [NoResult EXCEPT !.op = "crash", !.lost = (index # diskIndex.data)]
  /\ UNCHANGED <<diskIndex, diskMeta, savePc, saves>>
  /\ UNCHANGED <<retrievalVars, chunkVars, serveVars, cleanVars, genVars, callVars, pipeVars, chatVars>>

IngestNext ==
  \/ \E file \in FilePool : \E fault \in FaultsFor(file) : IngestDocument(file, fault)
  \/ \E dir \in Dirs : \E faults \in DirFaults(dir) : IngestDirectory(dir, faults)
  \/ SaveOpenIndex
  \/ SaveWriteIndex
  \/ SaveOpenMeta
  \/ SaveWriteMeta
  \/ Crash

(***************************************************************************)
(* ONLINE RETRIEVAL, core/online_retrieval.py.                             *)
(*                                                                         *)
(* Scores are Python floats: IEEE 754 binary64 numbers, every operation    *)
(* rounded to nearest, ties to even.  A positive float is [m, e], standing *)
(* for m * 2^e with 2^52 <= m < 2^53; m is a sequence of limbs in base     *)
(* 2^14, least significant first, without leading zero limbs.  0.0 is      *)
(* [m |-> <<>>, e |-> 0].  The scores of the source are far from the       *)
(* subnormal and the overflow range.                                       *)
(***************************************************************************)
\* the bits of the significand of a binary64 number
Precision == 53
\* four limbs hold a significand
LimbBits == Precision \div 4 + 1
LimbBase == 2^LimbBits

RECURSIVE BigNorm(_)
BigNorm(a) ==
  IF a # <<>> /\ a[Len(a)] = 0 THEN BigNorm(SubSeq(a, 1, Len(a) - 1)) ELSE a

RECURSIVE BigAddCarry(_, _, _)
BigAddCarry(a, b, carry) ==
  IF a = <<>> /\ b = <<>> THEN (IF carry = 0 THEN <<>> ELSE <<carry>>)
  ELSE <<((IF a = <<>> THEN 0 ELSE a[1]) + (IF b = <<>> THEN 0 ELSE b[1]) + carry) % LimbBase>>
       \o BigAddCarry(IF a = <<>> THEN <<>> ELSE Tail(a),
                      IF b = <<>> THEN <<>> ELSE Tail(b),
                      ((IF a = <<>> THEN 0 ELSE a[1]) + (IF b = <<>> THEN 0 ELSE b[1]) + carry)
                         \div LimbBase)

BigAdd(a, b) == BigAddCarry(a, b, 0)

\* a * k for one limb k (0 <= k <= LimbBase)
RECURSIVE BigMulLimb(_, _, _)
BigMulLimb(a, k, carry) ==
  IF a = <<>> THEN (IF carry = 0 THEN <<>> ELSE <<carry>>)
  ELSE <<(a[1] * k + carry) % LimbBase>>
       \o BigMulLimb(Tail(a), k, (a[1] * k + carry) \div LimbBase)

RECURSIVE BigMul(_, _)
BigMul(a, b) ==
  IF a = <<>> \/ b = <<>> THEN <<>>
  ELSE BigNorm(BigAdd(BigMulLimb(b, a[1], 0), <<0>> \o BigMul(Tail(a), b)))

\* number of bits of a limb, and of a number
LimbLen(n) == CHOOSE k \in 0..LimbBits : (k = 0 \/ 2^(k - 1) <= n) /\ n < 2^k
BitLen(a) == IF a = <<>> THEN 0 ELSE LimbBits * (Len(a) - 1) + LimbLen(a[Len(a)])

\* bit i of a, bit 0 the least significant
Bit(a, i) ==
  IF i \div LimbBits + 1 > Len(a) THEN 0
  ELSE (a[i \div LimbBits + 1] \div 2^(i % LimbBits)) % 2

LowBitsZero(a, k) == \A i \in 0..(k - 1) : Bit(a, i) = 0

LimbAt(a, j) == IF j <= Len(a) THEN a[j] ELSE 0

\* a shifted right by k bits, a shifted left by k bits
ShiftRight(a, k) ==
  BigNorm([j \in 1..Len(a) |->
             LimbAt(a, j + k \div LimbBits) \div 2^(k % LimbBits)
             + (LimbAt(a, j + k \div LimbBits + 1) % 2^(k % LimbBits))
               * 2^(LimbBits - (k % LimbBits))])

ShiftLeft(a, k) ==
  IF a = <<>> THEN <<>>
  ELSE [j \in 1..(k \div LimbBits) |-> 0] \o BigNorm(BigMulLimb(a, 2^(k % LimbBits), 0))

\* a > b for two numbers
BigGt(a, b) ==
  \/ Len(a) > Len(b)
  \/ /\ Len(a) = Len(b)
     /\ \E i \in 1..Len(a) : a[i] > b[i] /\ \A j \in (i + 1)..Len(a) : a[j] = b[j]

Float(m, e) == [m |-> m, e |-> e]
Zero == Float(<<>>, 0)

\* the significand of q (at most 54 bits) rounded up: 2^53 becomes 2^52
Carried(q, e) ==
  IF BitLen(q) > Precision THEN Float(ShiftRight(q, 1), e + 1) ELSE Float(q, e)

\* the float nearest to a * 2^e, ties to the even significand
Round(a, e) ==
  IF a = <<>> THEN Zero
  ELSE IF BitLen(a) <= Precision
  THEN Float(ShiftLeft(a, Precision - BitLen(a)), e - (Precision - BitLen(a)))
  ELSE IF Bit(a, BitLen(a) - Precision - 1) = 1
          /\ (Bit(a, BitLen(a) - Precision) = 1 \/ ~LowBitsZero(a, BitLen(a) - Precision - 1))
  THEN Carried(BigAdd(ShiftRight(a, BitLen(a) - Precision), <<1>>), e + BitLen(a) - Precision)
  ELSE Float(ShiftRight(a, BitLen(a) - Precision), e + BitLen(a) - Precision)

\* x * y and x + y of two floats
FMul(x, y) == IF x = Zero \/ y = Zero THEN Zero ELSE Round(BigMul(x.m, y.m), x.e + y.e)

\* the larger exponent first; a term more than 2^60 times smaller is lost
FAddOrdered(x, y) ==
  IF x.e - y.e > 60 THEN x
  ELSE Round(BigAdd(ShiftLeft(x.m, x.e - y.e), y.m), y.e)

FAdd(x, y) ==
  IF x = Zero THEN y
  ELSE IF y = Zero THEN x
  ELSE IF x.e >= y.e THEN FAddOrdered(x, y) ELSE FAddOrdered(y, x)

\* x > y, x >= y
FGt(x, y) ==
  /\ x # Zero
  /\ \/ y = Zero
     \/ x.e > y.e
     \/ x.e = y.e /\ BigGt(x.m, y.m)

FGeq(x, y) == x = y \/ FGt(x, y)

\* p / q of two ints (0 <= p <= q, 0 < q < 2^30), as Python's true division
\* rounds it: long division, one bit a step
RECURSIVE NormShift(_, _)
NormShift(p, q) == IF p >= q THEN 0 ELSE 1 + NormShift(2 * p, q)

\* the next n bits of r / q (r < q), most significant first, and what is
\* left after them
RECURSIVE DivBits(_, _, _)
DivBits(r, q, n) ==
  IF n = 0 THEN <<>>
  ELSE IF 2 * r >= q THEN <<1>> \o DivBits(2 * r - q, q, n - 1)
  ELSE <<0>> \o DivBits(2 * r, q, n - 1)

RECURSIVE DivRest(_, _, _)
DivRest(r, q, n) ==
  IF n = 0 THEN r
  ELSE IF 2 * r >= q THEN DivRest(2 * r - q, q, n - 1)
  ELSE DivRest(2 * r, q, n - 1)

\* the number whose bits are `bits`, most significant first
RECURSIVE LimbOfBits(_, _, _)
LimbOfBits(bits, low, n) ==
  IF n = 0 \/ low + n - 1 >= Len(bits) THEN
     IF n = 0 THEN 0 ELSE LimbOfBits(bits, low, n - 1)
  ELSE LimbOfBits(bits, low, n - 1) + bits[Len(bits) - (low + n - 1)] * 2^(n - 1)

FromBits(bits) ==
  BigNorm([j \in 1..((Len(bits) + LimbBits - 1) \div LimbBits) |->
             LimbOfBits(bits, LimbBits * (j - 1), LimbBits)])

\* the leading 1, 53 more bits of the quotient, and a last bit telling
\* whether anything is left: Round sees the bit to round on and the rest
Quotient(p, q) ==
  FromBits(<<1>> \o DivBits(p - q, q, Precision)
           \o <<IF DivRest(p - q, q, Precision) = 0 THEN 0 ELSE 1>>)

Divided(p, q) ==
  IF p = 0 THEN Zero
  ELSE Round(Quotient(p * 2^NormShift(p, q), q), -NormShift(p, q) - Precision - 1)

\* the quotients of the small ints, divided once
SmallQuotients == [q \in 1..Precision |-> [p \in 0..q |-> Divided(p, q)]]

FDivInt(p, q) == IF q <= Precision THEN SmallQuotients[q][p] ELSE Divided(p, q)

\* x * 2^n
Scale(x, n) == IF x = Zero THEN Zero ELSE Float(x.m, x.e + n)

\* RERANK_MIN_SCORE = 0.3 and the weights 0.7, 0.3 of rerank_candidates:
\* the floats nearest to 3/10 and 7/10
RERANK_MIN_SCORE == FDivInt(3, 10)
VECTOR_WEIGHT == FDivInt(7, 10)
KEYWORD_WEIGHT == FDivInt(3, 10)

\* The distance faiss reports beside the position -1 when the index holds
\* fewer than k vectors: the largest float32, (2^24 - 1) * 2^104.  The
\* distances of the model are ints, and this one, larger than every distance
\* between two embeddings of the model and no square, stands for it.
PAD_DISTANCE == 1000

\* the stop words of calculate_keyword_overlap
StopWords ==
  { <<"t","h","e">>, <<"a">>, <<"a","n">>, <<"i","s">>, <<"a","r","e">>,
    <<"w","a","s">>, <<"w","e","r","e">>, <<"w","h","a","t">>, <<"h","o","w">>,
    <<"w","h","y">>, <<"w","h","e","n">>, <<"w","h","e","r","e">> }

\* set(text.split()): the maximal runs of non-whitespace characters
RECURSIVE WordEnd(_, _)
WordEnd(text, i) ==
  IF i <= Len(text) /\ ~IsSpace(text[i]) THEN WordEnd(text, i + 1) ELSE i

RECURSIVE SplitFrom(_, _)
SplitFrom(text, i) ==
  IF i > Len(text) THEN {}
  ELSE IF IsSpace(text[i]) THEN SplitFrom(text, i + 1)
  ELSE {SubSeq(text, i, WordEnd(text, i) - 1)} \cup SplitFrom(text, WordEnd(text, i))

Words(text) == SplitFrom(Lower(text), 1) \ StopWords

Jaccard(question_words, chunk_words) ==
  IF question_words = {} \/ chunk_words = {} THEN Zero
  ELSE FDivInt(Cardinality(question_words \cap chunk_words),
               Cardinality(question_words \cup chunk_words))

calculate_keyword_overlap(question, chunk_text) ==
  Jaccard(Words(question), Words(chunk_text))

(***************************************************************************)
(* faiss IndexFlatL2.search(query, k): the k nearest positions (0-based)   *)
(* by ascending distance, padded with (-1, PAD_DISTANCE) when the index    *)
(* holds fewer than k vectors.                                             *)
(***************************************************************************)
Pair(idx, dist) == [idx |-> idx, dist |-> dist]

\* number of vectors that come before position p (1-based) in the result
RankOf(dists, p) ==
  Cardinality({j \in 1..Len(dists) :
                 dists[j] < dists[p] \/ (dists[j] = dists[p] /\ j < p)})

Nearest(dists, r) == CHOOSE p \in 1..Len(dists) : RankOf(dists, p) = r - 1

SearchIndex(vectors, query, k) ==
  [r \in 1..k |->
     IF r <= Len(vectors)
     THEN Pair(Nearest([j \in 1..Len(vectors) |-> L2(query, vectors[j])], r) - 1,
               L2(query, vectors[Nearest([j \in 1..Len(vectors) |-> L2(query, vectors[j])], r)]))
     ELSE Pair(-1, PAD_DISTANCE)]

\* the loop of retrieve_initial_candidates: "if idx < len(self.chunks_metadata)"
ValidIndex(idx, n) == idx < n

FilterValid(found, n) == SelectSeq(found, LAMBDA c : ValidIndex(c.idx, n))

retrieve_initial_candidates(vectors, meta, question, k) ==
  FilterValid(SearchIndex(vectors, Embed(question), k), Len(meta))

(***************************************************************************)
(* OnlineRetrieval.rerank_candidates                                       *)
(***************************************************************************)
\* self.chunks_metadata[chunk_idx] of a Python list: a negative position
\* counts from the end; outside the list it raises IndexError
InList(idx, n) == -n <= idx /\ idx < n
ListAt(list, idx) == IF idx >= 0 THEN list[idx + 1] ELSE list[Len(list) + idx + 1]

\* "1 / (1 + distance)" on a float distance; 1 + the largest float32 rounds
\* to the largest float32
Similarity(distance) ==
  IF distance = PAD_DISTANCE THEN Scale(FDivInt(1, 2^24 - 1), -104)
  ELSE FDivInt(1, 1 + distance)

\* "(0.7 * vector_similarity) + (0.3 * keyword_score)"
WeightedSum(vector_similarity, keyword_score) ==
  FAdd(FMul(VECTOR_WEIGHT, vector_similarity), FMul(KEYWORD_WEIGHT, keyword_score))

\* the weighted sums of the similarities of the small distances and of the
\* overlaps of the small word sets, summed once
SmallSimilarities ==
  {Similarity(PAD_DISTANCE)} \cup {FDivInt(1, q) : q \in 1..Precision}
SmallOverlaps == UNION {{FDivInt(p, q) : p \in 0..q} : q \in 1..(LimbBits \div 2)}
SmallScores ==
  [v \in SmallSimilarities |-> [k \in SmallOverlaps |-> WeightedSum(v, k)]]

FinalScore(vector_similarity, keyword_score) ==
  IF vector_similarity \in SmallSimilarities /\ keyword_score \in SmallOverlaps
  THEN SmallScores[vector_similarity][keyword_score]
  ELSE WeightedSum(vector_similarity, keyword_score)

Scored(chunk_idx, metadata, vector_similarity, keyword_score) ==
  [chunk_index |-> chunk_idx, metadata |-> metadata,
   score |-> FinalScore(vector_similarity, keyword_score),
   vector_similarity |-> vector_similarity, keyword_score |-> keyword_score]

ScoreCandidate(question, meta, c) ==
  Scored(c.idx, ListAt(meta, c.idx), Similarity(c.dist),
         calculate_keyword_overlap(question, ListAt(meta, c.idx).chunk_text))

\* Mutation: rerank_candidates without the "final_score >= RERANK_MIN_SCORE" test.
PassesAlways(sc) == TRUE

PassesThreshold(sc) == FGeq(sc.score, RERANK_MIN_SCORE)

\* the loop: every candidate scored, those under the threshold left out
ScoreAll(question, meta, candidates) ==
  SelectSeq([i \in 1..Len(candidates) |-> ScoreCandidate(question, meta, candidates[i])],
            PassesThreshold)

\* list.sort(key=score, reverse=True): descending and stable
RECURSIVE InsertDesc(_, _)
InsertDesc(sorted, x) ==
  IF sorted = <<>> THEN <<x>>
  ELSE IF FGt(x.score, Head(sorted).score) THEN <<x>> \o sorted
  ELSE <<Head(sorted)>> \o InsertDesc(Tail(sorted), x)

\* Mutation: rerank_candidates without the sort, the scored chunks left in
\* the order of the candidates.
Unsorted(s) == s

RECURSIVE SortDesc(_)
SortDesc(s) ==
  IF s = <<>> THEN <<>>
  ELSE InsertDesc(SortDesc(SubSeq(s, 1, Len(s) - 1)), s[Len(s)])

TopK(sorted, top_k) == SubSeq(sorted, 1, Min(top_k, Len(sorted)))

\* [raised, chunks]: raised when a candidate's position is outside the list
rerank_candidates(question, meta, candidates, top_k) ==
  IF \E i \in 1..Len(candidates) : ~InList(candidates[i].idx, Len(meta))
  THEN [raised |-> TRUE, chunks |-> <<>>]
  ELSE [raised |-> FALSE,
        chunks |-> TopK(SortDesc(ScoreAll(question, meta, candidates)), top_k)]

(***************************************************************************)
(* OnlineRetrieval.construct_context                                       *)
(***************************************************************************)
DigitOf(d) ==
  CASE d = 0 -> "0" [] d = 1 -> "1" [] d = 2 -> "2" [] d = 3 -> "3" [] d = 4 -> "4"
    [] d = 5 -> "5" [] d = 6 -> "6" [] d = 7 -> "7" [] d = 8 -> "8" [] d = 9 -> "9"

\* str(n) of a natural number
RECURSIVE IntToStr(_)
IntToStr(n) == IF n < 10 THEN <<DigitOf(n)>> ELSE IntToStr(n \div 10) \o <<DigitOf(n % 10)>>

\* Mutation: the label numbered from the 0-based loop index.
PassagePartZeroBased(i, chunk_text) ==
  <<"[","P","a","s","s","a","g","e"," ">> \o IntToStr(i) \o <<"]","\n">> \o chunk_text

\* f"[Passage {i+1}]\n{chunk_text}", i the 0-based position in ranked_chunks
PassagePart(i, chunk_text) ==
  <<"[","P","a","s","s","a","g","e"," ">> \o IntToStr(i + 1) \o <<"]","\n">> \o chunk_text

\* Mutation: the loop with "continue" in place of "break", a chunk that does
\* not fit skipped and the ones after it still tried.
RECURSIVE ContextPartsSkipping(_, _, _, _)
ContextPartsSkipping(ranked_chunks, i, total_tokens, max_tokens) ==
  IF i >= Len(ranked_chunks) THEN <<>>
  ELSE IF total_tokens + ranked_chunks[i + 1].metadata.token_count > max_tokens
  THEN ContextPartsSkipping(ranked_chunks, i + 1, total_tokens, max_tokens)
  ELSE <<PassagePart(i, ranked_chunks[i + 1].metadata.chunk_text)>>
       \o ContextPartsSkipping(ranked_chunks, i + 1,
                               total_tokens + ranked_chunks[i + 1].metadata.token_count,
                               max_tokens)

\* the loop, from 0-based position i on, total_tokens used so far
RECURSIVE ContextParts(_, _, _, _)
ContextParts(ranked_chunks, i, total_tokens, max_tokens) ==
  IF i >= Len(ranked_chunks) THEN <<>>
  ELSE IF total_tokens + ranked_chunks[i + 1].metadata.token_count > max_tokens
  THEN <<>>                                                              \* break
  ELSE <<PassagePart(i, ranked_chunks[i + 1].metadata.chunk_text)>>
       \o ContextParts(ranked_chunks, i + 1,
                       total_tokens + ranked_chunks[i + 1].metadata.token_count,
                       max_tokens)

\* "\n\n".join(parts)
RECURSIVE Join(_)
Join(parts) ==
  IF parts = <<>> THEN <<>>
  ELSE IF Len(parts) = 1 THEN parts[1]
  ELSE parts[1] \o <<"\n","\n">> \o Join(Tail(parts))

construct_context(ranked_chunks, max_tokens) ==
  Join(ContextParts(ranked_chunks, 0, 0, max_tokens))

(***************************************************************************)
(* What an OnlineRetrieval instance may have loaded: the metadata list and *)
(* the index of one ingestion, the two in step or, after a failed metadata *)
(* loop or a torn save, one of them a record or a vector short.            *)
(***************************************************************************)
\* "rp? rp?", "r r r p", "pp pp"
ChunkTexts ==
  { <<"r","p","?"," ","r","p","?">>,
    <<"r"," ","r"," ","r"," ","p">>,
    <<"p","p"," ","p","p">> }

\* "what Rp?", "the pp pp?"
Questions ==
  { <<"w","h","a","t"," ","R","p","?">>,
    <<"t","h","e"," ","p","p"," ","p","p","?">> }

ChunkLists == UNION {[1..n -> ChunkTexts] : n \in 0..MaxMeta}

LoadedMeta(texts) ==
  [i \in 1..Len(texts) |-> MetaRecord("doc.txt", i - 1, texts[i], Len(Encode(texts[i])))]

LoadedIndex(texts) == [i \in 1..Len(texts) |-> Embed(texts[i])]

Loadable ==
  UNION { { [index |-> LoadedIndex(SubSeq(texts, 1, n)),
             meta |-> LoadedMeta(SubSeq(texts, 1, m))] :
              <<n, m>> \in { <<Len(texts), Len(texts)>>,
                             <<Len(texts), Len(texts) - 1>>,
                             <<Len(texts) - 1, Len(texts)>> }
                           \cap (Nat \X Nat) } : texts \in ChunkLists }

(***************************************************************************)
(* Initial state and calls of one OnlineRetrieval instance.                *)
(***************************************************************************)
RetrievalIdle ==
  /\ r_stage = "loaded"
  /\ r_question = <<>>
  /\ r_candidates = <<>>
  /\ r_top_k = 0
  /\ r_ranked = <<>>
  /\ r_max_tokens = 0
  /\ r_context = <<>>

RetrievalInit ==
  /\ \E l \in Loadable : r_index = l.index /\ r_metadata = l.meta
  /\ RetrievalIdle

RetrieveInitialCandidates(q, k) ==
  /\ r_question' = q
  /\ r_candidates' = retrieve_initial_candidates(r_index, r_metadata, q, k)
  /\ r_stage' = "candidates"
  /\ r_top_k' = 0
  /\ r_ranked' = <<>>
  /\ r_max_tokens' = 0
  /\ r_context' = <<>>
  /\ UNCHANGED <<r_index, r_metadata>>
  /\ UNCHANGED <<ingestVars, chunkVars, serveVars, cleanVars, genVars, callVars, pipeVars, chatVars>>

Reranked(r) ==
  /\ r_stage' = IF r.raised THEN "raised" ELSE "ranked"
  /\ r_ranked' = r.chunks

RerankCandidates(k) ==
  /\ r_stage = "candidates"
  /\ r_top_k' = k
  /\ Reranked(rerank_candidates(r_question, r_metadata, r_candidates, k))
  /\ UNCHANGED <<r_index, r_metadata, r_question, r_candidates, r_max_tokens, r_context>>
  /\ UNCHANGED <<ingestVars, chunkVars, serveVars, cleanVars, genVars, callVars, pipeVars, chatVars>>

ConstructContext(budget) ==
  /\ r_stage = "ranked"
  /\ r_max_tokens' = budget
  /\ r_context' = construct_context(r_ranked, budget)
  /\ r_stage' = "context"
  /\ UNCHANGED <<r_index, r_metadata, r_question, r_candidates, r_top_k, r_ranked>>
  /\ UNCHANGED <<ingestVars, chunkVars, serveVars, cleanVars, genVars, callVars, pipeVars, chatVars>>

RetrievalNext ==
  \/ \E q \in Questions, k \in 1..MaxK : RetrieveInitialCandidates(q, k)
  \/ \E k \in 1..MaxK : RerankCandidates(k)
  \/ \E budget \in 0..MaxBudget : ConstructContext(budget)

(***************************************************************************)
(* One chunk_by_tokens call, a pass of its while loop at a time.           *)
(***************************************************************************)
\* The documents chunked: up to MaxDocTokens words, "abc" or "a", with one
\* space between them; every word is one token, the space before it included.
ChunkWords == { <<"a","b","c">>, <<"a">> }

RECURSIVE DocText(_)
DocText(ws) ==
  IF ws = <<>> THEN <<>>
  ELSE IF Len(ws) = 1 THEN ws[1]
  ELSE ws[1] \o <<" ">> \o DocText(Tail(ws))

ChunkDocs == {DocText(ws) : ws \in UNION {[1..n -> ChunkWords] : n \in 0..MaxDocTokens}}

ChunkIdle ==
  /\ c_tokens = <<>>
  /\ c_chunk_size = 0
  /\ c_overlap = 0
  /\ c_start = 0
  /\ c_chunks = <<>>
  /\ c_windows = <<>>
  /\ c_pc = "idle"

\* the call has encoded the text and is about to test "start < len(tokens)"
ChunkInit ==
  /\ \E text \in ChunkDocs : c_tokens = Encode(text)
  /\ c_chunk_size \in 1..MaxChunkSize
  /\ c_overlap \in 0..MaxOverlap
  /\ c_start = 0
  /\ c_chunks = <<>>
  /\ c_windows = <<>>
  /\ c_pc = "loop"

Window(start, stop, chunk_text) ==
  [start |-> start, stop |-> stop, kept |-> KeepsChunk(chunk_text)]

\* one pass of the loop
ChunkWindow ==
  /\ c_pc = "loop"
  /\ c_start < Len(c_tokens)
  /\ Len(c_windows) < MaxWindows
  /\ c_chunks' = c_chunks \o WindowChunks(WindowText(c_tokens, c_start, c_chunk_size))
  /\ c_windows' = Append(c_windows,
                         Window(SliceBound(c_start, Len(c_tokens)),
                                SliceBound(c_start + c_chunk_size, Len(c_tokens)),
                                WindowText(c_tokens, c_start, c_chunk_size)))
  /\ c_start' = c_start + (c_chunk_size - c_overlap)
  /\ UNCHANGED <<c_tokens, c_chunk_size, c_overlap, c_pc>>
  /\ UNCHANGED <<ingestVars, retrievalVars, serveVars, cleanVars, genVars, callVars, pipeVars, chatVars>>

\* the loop's test fails and the call returns chunks
ChunkReturn ==
  /\ c_pc = "loop"
  /\ ~(c_start < Len(c_tokens))
  /\ c_pc' = "done"
  /\ UNCHANGED <<c_tokens, c_chunk_size, c_overlap, c_start, c_chunks, c_windows>>
  /\ UNCHANGED <<ingestVars, retrievalVars, serveVars, cleanVars, genVars, callVars, pipeVars, chatVars>>

ChunkNext == ChunkWindow \/ ChunkReturn

(***************************************************************************)
(* RupayRAG.query calls issued by several callers against one RupayRAG     *)
(* and its loaded OnlineRetrieval, a step of OnlineRetrieval.retrieve at a *)
(* time, then RAGGeneration.generate_answer.                               *)
(***************************************************************************)
\* re.sub(r'\s+', ' ', question).strip(), and a "?" added when there is none
preprocess_question(question) ==
  IF Strip(CollapseWhitespace(question)) = <<>> THEN <<>>
  ELSE IF Strip(CollapseWhitespace(question))[Len(Strip(CollapseWhitespace(question)))] = "?"
  THEN Strip(CollapseWhitespace(question))
  ELSE Strip(CollapseWhitespace(question)) \o <<"?">>

\* the questions callers ask: "what  Rp", "the pp pp?"
AskedQuestions ==
  { <<"w","h","a","t"," "," ","R","p">>,
    <<"t","h","e"," ","p","p"," ","p","p","?">> }

\* what RupayRAG.__init__ finds: artifacts of at most MaxLoaded records
ServeLoadable ==
  {l \in Loadable : Len(l.index) <= MaxLoaded /\ Len(l.meta) <= MaxLoaded}

\* response.content: the white space it begins with, its text from the
\* first to the last character that is not white space, and the white space
\* it ends with
LlmReply(lead, text, trail) == [lead |-> lead, text |-> text, trail |-> trail]

NoLlmReply == LlmReply(<<>>, "", <<>>)

\* "response.content.strip()"
StripReply(content) == content.text

\* what self.llm.invoke does: it answers, or it raises
LlmOutcomes ==
  { [raised |-> FALSE, error |-> "",
     content |-> LlmReply(<<>>, "RuPay is a card payment network.", <<>>)],
    [raised |-> TRUE, error |-> "Connection refused", content |-> NoLlmReply] }

\* an answer: its text, after the prefix "Error generating answer: " if any
Answer(error_prefix, text) == [error_prefix |-> error_prefix, text |-> text]

\* Mutation: generate_answer testing "not context" alone, without the
\* context.strip() == "" test.
NoContextEmptyOnly(context) == context = <<>>

\* "if not context or context.strip() == ''"
NoContext(context) == Strip(context) = <<>>

\* what generate_answer hands back: the dictionary it returns (its 'answer',
\* 'has_context' and, when has_error, 'error' entries), or the exception it
\* raises, and how many times it invoked the model
Generated(raised, answer, has_context, has_error, error, llm_calls) ==
  [raised |-> raised, answer |-> answer, has_context |-> has_context,
   has_error |-> has_error, error |-> error, llm_calls |-> llm_calls]

\* Mutation: generate_answer without its try/except, the exception of the
\* model call reaching the caller.
LlmFailedUncaught(e) == Generated(TRUE, Answer(FALSE, ""), FALSE, FALSE, "", 1)

\* the except branch: the error put in the answer text and in 'error'
LlmFailed(e) == Generated(FALSE, Answer(TRUE, e), TRUE, TRUE, e, 1)

generate_answer(context, llm) ==
  IF NoContext(context)
  THEN Generated(FALSE, Answer(FALSE, NO_CONTEXT_RESPONSE), FALSE, FALSE, "", 0)
  ELSE IF llm.raised
  THEN LlmFailed(llm.error)
  ELSE Generated(FALSE, Answer(FALSE, StripReply(llm.content)), TRUE, FALSE, "", 1)

\* the dictionary retrieve returns (return_metadata=True), or IndexError
RetrieveResult(raised, context, ranked_chunks) ==
  [raised |-> raised, context |-> context, num_chunks |-> Len(ranked_chunks),
   chunks |-> ranked_chunks]

\* OnlineRetrieval.retrieve from its first line to its return
retrieve(idx, meta, question) ==
  IF rerank_candidates(preprocess_question(question), meta,
                       retrieve_initial_candidates(idx, meta, preprocess_question(question),
                                                   INITIAL_RETRIEVAL_K),
                       RERANK_TOP_K).raised
  THEN RetrieveResult(TRUE, <<>>, <<>>)
  ELSE RetrieveResult(
         FALSE,
         construct_context(
           rerank_candidates(preprocess_question(question), meta,
                             retrieve_initial_candidates(idx, meta,
                                                         preprocess_question(question),
                                                         INITIAL_RETRIEVAL_K),
                             RERANK_TOP_K).chunks,
           MAX_CONTEXT_TOKENS),
         rerank_candidates(preprocess_question(question), meta,
                           retrieve_initial_candidates(idx, meta,
                                                       preprocess_question(question),
                                                       INITIAL_RETRIEVAL_K),
                           RERANK_TOP_K).chunks)

\* the local variables of one query call
Call(pc, question, processed_question, candidates, ranked_chunks, context) ==
  [pc |-> pc, question |-> question, processed_question |-> processed_question,
   candidates |-> candidates, ranked_chunks |-> ranked_chunks, context |-> context]

IdleCall == Call("idle", <<>>, <<>>, <<>>, <<>>, <<>>)

\* what a query call handed back: the retrieval result it went through (if
\* it reached retrieve) and the answer (if retrieve returned)
Returned(question, retrieved, retrieval_result, answered, answer) ==
  [question |-> question, retrieved |-> retrieved, retrieval_result |-> retrieval_result,
   answered |-> answered, answer |-> answer]

NoAnswer == Answer(FALSE, "")
NOT_INITIALIZED == "RAG system not initialized. Please run offline ingestion first."

ServeInit ==
  /\ \/ /\ is_offline_ready = TRUE
        /\ \E l \in ServeLoadable : r_index = l.index /\ r_metadata = l.meta
     \/ /\ is_offline_ready = FALSE
        /\ r_index = <<>>
        /\ r_metadata = <<>>
  /\ RetrievalIdle
  /\ calls = [c \in 1..MaxCallers |-> IdleCall]
  /\ returned = {}

\* Mutation: the variables of retrieve kept on the instance, where the call
\* of one caller overwrites those of the calls in flight.
StoreCallShared(c, call) ==
  [d \in DOMAIN calls |->
     IF d = c THEN call
     ELSE IF calls[d].pc = "idle" THEN calls[d]
     ELSE [calls[d] EXCEPT !.processed_question = call.processed_question,
                           !.candidates = call.candidates,
                           !.ranked_chunks = call.ranked_chunks,
                           !.context = call.context]]

\* the variables of retrieve are local to the call
StoreCall(c, call) == [calls EXCEPT ![c] = call]

ServeUnchanged ==
  /\ UNCHANGED <<r_index, r_metadata, r_stage, r_question, r_candidates, r_top_k, r_ranked,
                 r_max_tokens, r_context, is_offline_ready>>
  /\ UNCHANGED <<ingestVars, chunkVars, cleanVars, genVars, callVars, pipeVars, chatVars>>

\* the call of caller c is over
Finish(c, r) ==
  /\ calls' = StoreCall(c, IdleCall)
  /\ returned' = returned \cup {r}

\* query, down to the candidates of retrieve's step 2
QueryBegin(c, q) ==
  /\ calls[c].pc = "idle"
  /\ IF ~is_offline_ready
     THEN Finish(c, Returned(q, FALSE, RetrieveResult(FALSE, <<>>, <<>>), TRUE,
                             Answer(FALSE, NOT_INITIALIZED)))
     ELSE /\ calls' = StoreCall(c, Call("searched", q, preprocess_question(q),
                                        retrieve_initial_candidates(
                                          r_index, r_metadata, preprocess_question(q),
                                          INITIAL_RETRIEVAL_K),
                                        <<>>, <<>>))
          /\ UNCHANGED returned
  /\ ServeUnchanged

\* retrieve's step 3, and its early return when nothing was ranked
Ranked(c, r) ==
  IF r.raised
  THEN Finish(c, Returned(calls[c].question, TRUE, RetrieveResult(TRUE, <<>>, <<>>),
                          FALSE, NoAnswer))
  ELSE /\ calls' = StoreCall(c, [calls[c] EXCEPT
                                   !.pc = IF r.chunks = <<>> THEN "retrieved" ELSE "ranked",
                                   !.ranked_chunks = r.chunks])
       /\ UNCHANGED returned

QueryRerank(c) ==
  /\ calls[c].pc = "searched"
  /\ Ranked(c, rerank_candidates(calls[c].processed_question, r_metadata,
                                 calls[c].candidates, RERANK_TOP_K))
  /\ ServeUnchanged

\* retrieve's step 4 and its return
QueryContext(c) ==
  /\ calls[c].pc = "ranked"
  /\ calls' = StoreCall(c, [calls[c] EXCEPT
                              !.pc = "retrieved",
                              !.context = construct_context(calls[c].ranked_chunks,
                                                            MAX_CONTEXT_TOKENS)])
  /\ UNCHANGED returned
  /\ ServeUnchanged

\* query's step 2, generate_answer, and its return
QueryGenerate(c, llm) ==
  /\ calls[c].pc = "retrieved"
  /\ Finish(c, Returned(calls[c].question, TRUE,
                        RetrieveResult(FALSE, calls[c].context, calls[c].ranked_chunks),
                        TRUE, generate_answer(calls[c].context, llm).answer))
  /\ ServeUnchanged

ServeNext ==
  \/ \E c \in 1..MaxCallers, q \in AskedQuestions : QueryBegin(c, q)
  \/ \E c \in 1..MaxCallers : QueryRerank(c)
  \/ \E c \in 1..MaxCallers : QueryContext(c)
  \/ \E c \in 1..MaxCallers, llm \in LlmOutcomes : QueryGenerate(c, llm)

(***************************************************************************)
(* clean_text applied to a raw text, and again to what it returned.        *)
(***************************************************************************)
\* the characters of the raw texts: a letter, the two kinds of whitespace
\* and a character outside the whitelist
RawChars == {"a", " ", "\n", "@"}

RawTexts == UNION {[1..n -> RawChars] : n \in 0..MaxTextLen}

CleanIdle ==
  /\ x_text = <<>>
  /\ x_cleaned = <<>>

CleanInit ==
  /\ x_text \in RawTexts
  /\ x_cleaned = <<>>

CleanText ==
  /\ Len(x_cleaned) < MaxCleanings
  /\ x_cleaned' = Append(x_cleaned,
                         clean_text(IF x_cleaned = <<>> THEN x_text
                                    ELSE x_cleaned[Len(x_cleaned)]))
  /\ UNCHANGED x_text
  /\ UNCHANGED <<ingestVars, retrievalVars, chunkVars, serveVars, genVars, callVars, pipeVars, chatVars>>

CleanNext == CleanText

(***************************************************************************)
(* One RAGGeneration.generate_answer call.                                 *)
(***************************************************************************)
ContextChars == {"a", " ", "\n"}

Contexts == UNION {[1..n -> ContextChars] : n \in 0..MaxContextLen}

\* the model may also answer with the sentence its prompt tells it to use
\* when the context does not hold the answer, with white space around its
\* text, or with white space only
GenLlmOutcomes ==
  LlmOutcomes
  \cup {[raised |-> FALSE, error |-> "", content |-> c] :
          c \in {LlmReply(<<>>, NO_CONTEXT_RESPONSE, <<>>),
                 LlmReply(<<" ", " ">>, "RuPay is a card payment network.", <<"\n">>),
                 LlmReply(<<" ", "\n">>, "", <<>>)}}

NoGeneration == Generated(FALSE, NoAnswer, FALSE, FALSE, "", 0)

GenIdle ==
  /\ g_context = <<>>
  /\ g_result = NoGeneration
  /\ g_llm_calls = 0
  /\ g_pc = "idle"

GenInit ==
  /\ g_context \in Contexts
  /\ g_result = NoGeneration
  /\ g_llm_calls = 0
  /\ g_pc = "new"

GenerateAnswer(llm) ==
  /\ g_pc = "new"
  /\ g_result' = generate_answer(g_context, llm)
  /\ g_llm_calls' = g_llm_calls + generate_answer(g_context, llm).llm_calls
  /\ g_pc' = "done"
  /\ UNCHANGED g_context
  /\ UNCHANGED <<ingestVars, retrievalVars, chunkVars, serveVars, cleanVars, callVars, pipeVars, chatVars>>

GenNext == \E llm \in GenLlmOutcomes : GenerateAnswer(llm)

(***************************************************************************)
(* One OnlineRetrieval.retrieve call, from its arguments to the dictionary *)
(* it returns.                                                             *)
(***************************************************************************)
\* a dictionary retrieve returns: its keys and the values under them (a
\* value whose key is missing is left empty)
Dict(keys, context, num_chunks, question, chunks) ==
  [keys |-> keys, context |-> context, num_chunks |-> num_chunks,
   question |-> question, chunks |-> chunks]

NoDict == Dict({}, <<>>, 0, <<>>, <<>>)

\* Mutation: retrieve reporting the number of chunks it asked the re-ranking
\* for, RERANK_TOP_K, in place of the number it got.
RetrieveDictTopK(r, processed_question, return_metadata) ==
  IF r.chunks = <<>>
  THEN Dict({"context", "num_chunks", "chunks"}, <<>>, 0, <<>>, <<>>)
  ELSE Dict({"context", "num_chunks", "question"}
              \cup (IF return_metadata THEN {"chunks"} ELSE {}),
            r.context, RERANK_TOP_K, processed_question,
            IF return_metadata THEN r.chunks ELSE <<>>)

\* the two return statements of retrieve, on what its steps 1 to 4 computed
RetrieveDict(r, processed_question, return_metadata) ==
  IF r.chunks = <<>>
  THEN Dict({"context", "num_chunks", "chunks"}, <<>>, 0, <<>>, <<>>)
  ELSE Dict({"context", "num_chunks", "question"}
              \cup (IF return_metadata THEN {"chunks"} ELSE {}),
            r.context, Len(r.chunks), processed_question,
            IF return_metadata THEN r.chunks ELSE <<>>)

CallIdle ==
  /\ t_question = <<>>
  /\ t_return_metadata = FALSE
  /\ t_result = NoDict
  /\ t_pc = "idle"

CallInit ==
  /\ t_question \in AskedQuestions
  /\ t_return_metadata \in BOOLEAN
  /\ t_result = NoDict
  /\ t_pc = "new"

RetrieveReturns(r) ==
  /\ t_pc' = IF r.raised THEN "raised" ELSE "done"
  /\ t_result' = IF r.raised THEN NoDict
                 ELSE RetrieveDict(r, preprocess_question(t_question), t_return_metadata)

Retrieve ==
  /\ t_pc = "new"
  /\ RetrieveReturns(retrieve(r_index, r_metadata, t_question))
  /\ UNCHANGED <<t_question, t_return_metadata>>
  /\ UNCHANGED <<ingestVars, retrievalVars, chunkVars, serveVars, cleanVars, genVars, pipeVars, chatVars>>

CallNext == Retrieve

(***************************************************************************)
(* RupayRAG: construction, run_offline_ingestion and query, and the        *)
(* RAGAgent.execute calls made through it.                                 *)
(***************************************************************************)
\* the dimension of an index persisted under another embedding model
OtherDimension == EMBEDDING_DIMENSION * 2

MissingIndex == [exists |-> FALSE, gen |-> 0, d |-> 0, vectors |-> <<>>]
MissingMetadata == [exists |-> FALSE, gen |-> 0, meta |-> <<>>]
IndexFileOf(gen, d, vectors) == [exists |-> TRUE, gen |-> gen, d |-> d, vectors |-> vectors]
MetadataFileOf(gen, meta) == [exists |-> TRUE, gen |-> gen, meta |-> meta]

\* a component that is None, and the two components once loaded
None == [loaded |-> FALSE]
RAGGeneration == [loaded |-> TRUE]
LoadedRetrieval(ifile, mfile) ==
  [loaded |-> TRUE, d |-> ifile.d, vectors |-> ifile.vectors, meta |-> mfile.meta,
   gen_index |-> ifile.gen, gen_meta |-> mfile.gen]

\* "pp pp", "rp? rp?", "r r r p": the chunks of the corpora ingested
CorpusTexts ==
  << <<"p","p"," ","p","p">>,
     <<"r","p","?"," ","r","p","?">>,
     <<"r"," ","r"," ","r"," ","p">> >>

Corpora == {SubSeq(CorpusTexts, 1, n) : n \in 0..Min(MaxCorpus, Len(CorpusTexts))}

\* what may go wrong around the code: the embedding model or the LLM client
\* cannot be loaded, the documents directory cannot be listed, a file
\* cannot be opened for writing; "embedding_model_reload": the embedding
\* model, loaded by OfflineIngestion(), cannot be loaded once more by the
\* OnlineRetrieval() that follows the save
LoadFaults == {"none", "embedding_model", "llm_client"}
IngestionFaults ==
  LoadFaults \cup {"ingest", "write_index", "write_metadata", "embedding_model_reload"}

\* the fault as the OnlineRetrieval() of run_offline_ingestion meets it
AtReload(fault) == IF fault = "embedding_model_reload" THEN "embedding_model" ELSE fault

\* "if not os.path.exists(...)" in OnlineRetrieval.__init__.
\* Mutation: the test left out, a missing file read as an empty one.
ArtifactPresent(file) == FALSE
ArtifactMissing(file) == ~file.exists

Raises(error) == [raised |-> TRUE, error |-> error, instance |-> None]

\* OnlineRetrieval.__init__
OnlineRetrievalInit(ifile, mfile, fault) ==
  IF fault = "embedding_model" THEN Raises("OSError")
  ELSE IF ArtifactMissing(ifile) THEN Raises("FileNotFoundError")
  ELSE IF ArtifactMissing(mfile) THEN Raises("FileNotFoundError")
  ELSE [raised |-> FALSE, error |-> "", instance |-> LoadedRetrieval(ifile, mfile)]

\* a RupayRAG object and the files: what a method leaves behind, and
\* whether it raised
World(ifile, mfile, begun, completed, ready, retr, gener) ==
  [index_file |-> ifile, metadata_file |-> mfile, save_begun |-> begun,
   save_completed |-> completed, is_offline_ready |-> ready, retrieval |-> retr,
   generation |-> gener]

Left(world, raised, error) == [world |-> world, raised |-> raised, error |-> error]

\* RupayRAG.__init__
RupayRAGInit(w, fault) ==
  IF ~(w.index_file.exists /\ w.metadata_file.exists)
  THEN Left([w EXCEPT !.is_offline_ready = FALSE, !.retrieval = None, !.generation = None],
            FALSE, "")
  ELSE IF OnlineRetrievalInit(w.index_file, w.metadata_file, fault).raised
  THEN Left(w, TRUE, OnlineRetrievalInit(w.index_file, w.metadata_file, fault).error)
  ELSE IF fault = "llm_client"
  THEN Left(w, TRUE, "ValidationError")
  ELSE Left([w EXCEPT !.is_offline_ready = TRUE,
                      !.retrieval = OnlineRetrievalInit(w.index_file, w.metadata_file,
                                                        fault).instance,
                      !.generation = RAGGeneration],
            FALSE, "")

\* run_offline_ingestion from "self.is_offline_ready = True" on: the online
\* components re-initialised from the files just saved
Reinitialize(w, fault) ==
  IF OnlineRetrievalInit(w.index_file, w.metadata_file, AtReload(fault)).raised
  THEN Left([w EXCEPT !.is_offline_ready = TRUE], TRUE,
            OnlineRetrievalInit(w.index_file, w.metadata_file, AtReload(fault)).error)
  ELSE IF fault = "llm_client"
  THEN Left([w EXCEPT !.is_offline_ready = TRUE,
                      !.retrieval = OnlineRetrievalInit(w.index_file, w.metadata_file,
                                                        AtReload(fault)).instance],
            TRUE, "ValidationError")
  ELSE Left([w EXCEPT !.is_offline_ready = TRUE,
                      !.retrieval = OnlineRetrievalInit(w.index_file, w.metadata_file,
                                                        AtReload(fault)).instance,
                      !.generation = RAGGeneration],
            FALSE, "")

\* get_stats and the VERBOSE report of run_offline_ingestion: with no chunk
\* get_stats returns {"total_chunks": 0} and the report reads
\* overall_stats['total_documents']
ReportStats(w, corpus, fault) ==
  IF corpus = <<>> THEN Left(w, TRUE, "KeyError")
  ELSE Reinitialize(w, fault)

\* OfflineIngestion.save_index on a fresh OfflineIngestion that ingested
\* `corpus`, and what follows it
SaveIndex(w, corpus, fault) ==
  IF fault = "write_index"
  THEN Left([w EXCEPT !.save_begun = w.save_begun + 1], TRUE, "OSError")
  ELSE IF fault = "write_metadata"
  THEN Left([w EXCEPT !.save_begun = w.save_begun + 1,
                      !.index_file = IndexFileOf(w.save_begun + 1, EMBEDDING_DIMENSION,
                                                 LoadedIndex(corpus))],
            TRUE, "OSError")
  ELSE ReportStats([w EXCEPT !.save_begun = w.save_begun + 1,
                             !.save_completed = w.save_begun + 1,
                             !.index_file = IndexFileOf(w.save_begun + 1, EMBEDDING_DIMENSION,
                                                        LoadedIndex(corpus)),
                             !.metadata_file = MetadataFileOf(w.save_begun + 1,
                                                              LoadedMeta(corpus))],
                   corpus, fault)

\* RupayRAG.run_offline_ingestion: "ingestion = OfflineIngestion()" loads
\* the embedding model, ingest_directory lists the documents directory
run_offline_ingestion(w, corpus, fault) ==
  IF fault = "embedding_model" THEN Left(w, TRUE, "OSError")
  ELSE IF fault = "ingest" THEN Left(w, TRUE, "FileNotFoundError")
  ELSE SaveIndex(w, corpus, fault)

\* what RupayRAG.query hands back: the dictionary it returns (its keys,
\* answer, num_chunks and documents[0]) or the exception it raises;
\* searched: the FAISS index was handed the query embedding
QueryResult(raised, error, searched, keys, answer, num_chunks, documents) ==
  [raised |-> raised, error |-> error, searched |-> searched, keys |-> keys,
   answer |-> answer, num_chunks |-> num_chunks, documents |-> documents]

QueryRaises(error, searched) == QueryResult(TRUE, error, searched, {}, NoAnswer, 0, <<>>)

ChunkTextsOf(chunks) == [i \in 1..Len(chunks) |-> chunks[i].metadata.chunk_text]

\* query from "context = retrieval_result['context']" on
Answered(dict, gener, return_context, return_metadata, llm) ==
  IF ~gener.loaded THEN QueryRaises("AttributeError", TRUE)
  ELSE QueryResult(
         FALSE, "", TRUE,
         {"answer", "has_context", "num_chunks", "documents"}
           \cup (IF return_context THEN {"context"} ELSE {})
           \cup (IF return_metadata /\ "chunks" \in dict.keys THEN {"chunks"} ELSE {}),
         generate_answer(dict.context, llm).answer,
         dict.num_chunks,
         IF dict.num_chunks > 0 /\ "chunks" \in dict.keys
         THEN ChunkTextsOf(dict.chunks) ELSE <<>>)

\* what an OnlineRetrieval can hold loaded, and what its retrieve returns
\* for each question asked
Held == {[index |-> LoadedIndex(c), meta |-> LoadedMeta(k)] : c \in Corpora, k \in Corpora}

Retrieved == [l \in Held |-> [q \in AskedQuestions |-> retrieve(l.index, l.meta, q)]]

RetrievedBy(retr, question) ==
  Retrieved[[index |-> retr.vectors, meta |-> retr.meta]][question]

\* RupayRAG.query
query(w, question, return_context, return_metadata, llm) ==
  IF ~w.is_offline_ready
  THEN QueryResult(FALSE, "", FALSE, {"documents", "answer"},
                   Answer(FALSE, NOT_INITIALIZED), 0, <<>>)
  ELSE IF ~w.retrieval.loaded THEN QueryRaises("AttributeError", FALSE)
  ELSE IF w.retrieval.d # EMBEDDING_DIMENSION      \* faiss search: "assert d == self.d"
  THEN QueryRaises("AssertionError", TRUE)
  ELSE IF RetrievedBy(w.retrieval, question).raised
  THEN QueryRaises("IndexError", TRUE)
  ELSE Answered(RetrieveDict(RetrievedBy(w.retrieval, question),
                             preprocess_question(question), return_metadata),
                w.generation, return_context, return_metadata, llm)

\* the JSON object RAGAgent.execute returns
AgentReply(answer, chunks, num_chunks, has_error, error) ==
  [answer |-> answer, chunks |-> chunks, num_chunks |-> num_chunks,
   has_error |-> has_error, error |-> error]

\* f"Error processing your question: {str(e)}"
ProcessingError(e) == [processing_error |-> TRUE, text |-> e]

\* documents[:3]
FirstThree(documents) == SubSeq(documents, 1, Min(REFERENCE_CHUNKS, Len(documents)))

NOT_FOUND == "I couldn't find specific information about that in the RuPay documents."

\* execute from "answer = result.get('answer', '')" on
Respond(res) ==
  IF res.raised
  THEN AgentReply(ProcessingError(res.error), <<>>, 0, TRUE, res.error)
  ELSE IF res.documents = <<>> /\ res.num_chunks = 0
  THEN AgentReply(IF res.answer.text = "" THEN Answer(FALSE, NOT_FOUND) ELSE res.answer,
                  <<>>, 0, FALSE, "")
  ELSE AgentReply(res.answer, FirstThree(res.documents), res.num_chunks, FALSE, "")

\* what the LLM of the generation does under RAGAgent.execute: as in
\* LlmOutcomes, or it answers with white space only
AgentLlmOutcomes ==
  LlmOutcomes \cup {[raised |-> FALSE, error |-> "", content |-> LlmReply(<<" ">>, "", <<>>)]}

\* RAGAgent.execute; has_rag: the agent holds a RupayRAG
execute(has_rag, w, question, llm) ==
  IF question = <<>>
  THEN AgentReply(Answer(FALSE, "Please provide a question."), <<>>, 0, FALSE, "")
  ELSE IF ~has_rag
  THEN AgentReply(Answer(FALSE, "System Error: RAG Pipeline is not active."), <<>>, 0,
                  TRUE, "RAG pipeline not initialized")
  ELSE Respond(query(w, question, FALSE, FALSE, llm))

\* the outcome of the last call
OutcomeOf(op, raised, error, res) ==
  [op |-> op, raised |-> raised, error |-> error, result |-> res]

NoOutcome == OutcomeOf("none", FALSE, "", <<>>)

TheWorld ==
  World(index_file, metadata_file, save_begun, save_completed, is_offline_ready,
        retrieval, generation)

\* the files as the run finds them: none, the pair of an earlier save (of
\* this embedding model or another), or one of the two alone
InitialFiles ==
  {[index_file |-> MissingIndex, metadata_file |-> MissingMetadata]}
  \cup UNION { { [index_file |-> IndexFileOf(0, d, LoadedIndex(corpus)),
                  metadata_file |-> MetadataFileOf(0, LoadedMeta(corpus))] :
                   d \in {EMBEDDING_DIMENSION, OtherDimension} }
               \cup { [index_file |-> IndexFileOf(0, EMBEDDING_DIMENSION, LoadedIndex(corpus)),
                       metadata_file |-> MissingMetadata],
                      [index_file |-> MissingIndex,
                       metadata_file |-> MetadataFileOf(0, LoadedMeta(corpus))] } :
               corpus \in Corpora }

PipeIdle ==
  /\ index_file = MissingIndex
  /\ metadata_file = MissingMetadata
  /\ rag_pc = "idle"
  /\ retrieval = None
  /\ generation = None
  /\ save_begun = 0
  /\ save_completed = 0
  /\ outcome = NoOutcome

PipeInit ==
  /\ \E f \in InitialFiles : index_file = f.index_file /\ metadata_file = f.metadata_file
  /\ rag_pc = "unborn"
  /\ retrieval = None
  /\ generation = None
  /\ save_begun = 0
  /\ save_completed = 0
  /\ outcome = NoOutcome
  /\ is_offline_ready = FALSE
  /\ calls = <<>>
  /\ returned = {}

\* the method returns or raises, leaving l.world behind
Leaves(l) ==
  /\ index_file' = l.world.index_file
  /\ metadata_file' = l.world.metadata_file
  /\ save_begun' = l.world.save_begun
  /\ save_completed' = l.world.save_completed
  /\ is_offline_ready' = l.world.is_offline_ready
  /\ retrieval' = l.world.retrieval
  /\ generation' = l.world.generation

PipeUnchanged ==
  /\ UNCHANGED <<calls, returned>>
  /\ UNCHANGED <<ingestVars, retrievalVars, chunkVars, cleanVars, genVars, callVars, chatVars>>

\* RupayRAG(), in RAGAgent.__init__ or on its own
Construct(fault) ==
  /\ rag_pc = "unborn"
  /\ Leaves(RupayRAGInit(TheWorld, fault))
  /\ rag_pc' = IF RupayRAGInit(TheWorld, fault).raised THEN "failed" ELSE "alive"
  /\ outcome' = OutcomeOf("init", RupayRAGInit(TheWorld, fault).raised,
                         RupayRAGInit(TheWorld, fault).error, <<>>)
  /\ PipeUnchanged

\* OnlineRetrieval() constructed on its own, as test_rag_retrieval.py does
ConstructRetrieval(fault) ==
  /\ rag_pc = "unborn"
  /\ outcome' = OutcomeOf("OnlineRetrieval",
                         OnlineRetrievalInit(index_file, metadata_file, fault).raised,
                         OnlineRetrievalInit(index_file, metadata_file, fault).error,
                         OnlineRetrievalInit(index_file, metadata_file, fault).instance)
  /\ UNCHANGED <<index_file, metadata_file, rag_pc, retrieval, generation, save_begun,
                 save_completed, is_offline_ready>>
  /\ PipeUnchanged

RunOfflineIngestion(corpus, fault) ==
  /\ rag_pc = "alive"
  /\ save_begun < MaxSaves
  /\ Leaves(run_offline_ingestion(TheWorld, corpus, fault))
  /\ outcome' = OutcomeOf("run_offline_ingestion",
                         run_offline_ingestion(TheWorld, corpus, fault).raised,
                         run_offline_ingestion(TheWorld, corpus, fault).error, <<>>)
  /\ UNCHANGED rag_pc
  /\ PipeUnchanged

Query(question, return_metadata, llm) ==
  /\ rag_pc = "alive"
  /\ outcome' = OutcomeOf("query",
                         query(TheWorld, question, FALSE, return_metadata, llm).raised,
                         query(TheWorld, question, FALSE, return_metadata, llm).error,
                         query(TheWorld, question, FALSE, return_metadata, llm))
  /\ UNCHANGED <<index_file, metadata_file, rag_pc, retrieval, generation, save_begun,
                 save_completed, is_offline_ready>>
  /\ PipeUnchanged

Execute(question, llm) ==
  /\ rag_pc \in {"alive", "failed"}
  /\ outcome' = OutcomeOf("execute", FALSE, "",
                         execute(rag_pc = "alive", TheWorld, question, llm))
  /\ UNCHANGED <<index_file, metadata_file, rag_pc, retrieval, generation, save_begun,
                 save_completed, is_offline_ready>>
  /\ PipeUnchanged

PipeNext ==
  \/ \E fault \in LoadFaults : Construct(fault)
  \/ \E fault \in LoadFaults : ConstructRetrieval(fault)
  \/ \E corpus \in Corpora, fault \in IngestionFaults : RunOfflineIngestion(corpus, fault)
  \/ \E q \in AskedQuestions, rm \in BOOLEAN, llm \in LlmOutcomes : Query(q, rm, llm)
  \/ \E q \in AskedQuestions \cup {<<>>}, llm \in AgentLlmOutcomes : Execute(q, llm)

(***************************************************************************)
(* MainOrchestrator.chat and _rephrase_query.  Queries, the messages of    *)
(* exceptions and the replies of the rephrasing LLM are sequences of       *)
(* characters.                                                             *)
(***************************************************************************)
\* "upi", "failed", "what", "hello", "What UPI", "show"
UserQueries ==
  { <<"u", "p", "i">>, <<"f", "a", "i", "l", "e", "d">>, <<"w", "h", "a", "t">>,
    <<"h", "e", "l", "l", "o">>, <<"W", "h", "a", "t", " ", "U", "P", "I">>,
    <<"s", "h", "o", "w">> }

\* ['upi', 'nach', 'imps', 'rtgs', 'neft', 'visa', 'mastercard']
NON_RUPAY_WORDS ==
  { <<"u", "p", "i">>, <<"n", "a", "c", "h">>, <<"i", "m", "p", "s">>,
    <<"r", "t", "g", "s">>, <<"n", "e", "f", "t">>, <<"v", "i", "s", "a">>,
    <<"m", "a", "s", "t", "e", "r", "c", "a", "r", "d">> }

\* ['transaction', 'failed', 'txn', 'payment', 'withdrawal', 'deposit']
TRANSACTION_WORDS ==
  { <<"t", "r", "a", "n", "s", "a", "c", "t", "i", "o", "n">>,
    <<"f", "a", "i", "l", "e", "d">>, <<"t", "x", "n">>,
    <<"p", "a", "y", "m", "e", "n", "t">>,
    <<"w", "i", "t", "h", "d", "r", "a", "w", "a", "l">>,
    <<"d", "e", "p", "o", "s", "i", "t">> }

\* ['what', 'how', 'when', 'why', 'benefit', 'limit', 'card', 'rupay']
GENERAL_WORDS ==
  { <<"w", "h", "a", "t">>, <<"h", "o", "w">>, <<"w", "h", "e", "n">>, <<"w", "h", "y">>,
    <<"b", "e", "n", "e", "f", "i", "t">>, <<"l", "i", "m", "i", "t">>,
    <<"c", "a", "r", "d">>, <<"r", "u", "p", "a", "y">> }

\* "word in text": word is a substring of text
Contains(text, word) ==
  \E i \in 1..(Len(text) - Len(word) + 1) : SubSeq(text, i, i + Len(word) - 1) = word

\* "any(word in query_lower for word in [...])", query_lower = user_query.lower()
AnyWordIn(q, words) == \E word \in words : Contains(Lower(q), word)

\* the messages of the exceptions self.llm.invoke raises: "Connection error.",
\* "Connection refused", "Error code: 500", "unexpected tokens",
\* "Request timed out."
LlmErrors ==
  { <<"C", "o", "n", "n", "e", "c", "t", "i", "o", "n", " ", "e", "r", "r", "o", "r", ".">>,
    <<"C", "o", "n", "n", "e", "c", "t", "i", "o", "n", " ", "r", "e", "f", "u", "s", "e", "d">>,
    <<"E", "r", "r", "o", "r", " ", "c", "o", "d", "e", ":", " ", "5", "0", "0">>,
    <<"u", "n", "e", "x", "p", "e", "c", "t", "e", "d", " ", "t", "o", "k", "e", "n", "s">>,
    <<"R", "e", "q", "u", "e", "s", "t", " ", "t", "i", "m", "e", "d", " ", "o", "u", "t", ".">> }

\* '"connection error" in error_msg or "connect" in error_msg',
\* error_msg = str(e).lower()
ConnectionFailed(error_msg) ==
  \/ Contains(error_msg, <<"c", "o", "n", "n", "e", "c", "t", "i", "o", "n", " ", "e", "r", "r", "o", "r">>)
  \/ Contains(error_msg, <<"c", "o", "n", "n", "e", "c", "t">>)

\* '"unexpected tokens" in error_msg or "500" in error_msg'
NotCaught(error_msg) ==
  \/ Contains(error_msg, <<"u", "n", "e", "x", "p", "e", "c", "t", "e", "d", " ", "t", "o", "k", "e", "n", "s">>)
  \/ Contains(error_msg, <<"5", "0", "0">>)

\* the content of a routing response: plain text, braces around what is not
\* JSON, or a JSON command with its target and its parameters (null, an
\* object, an object of type "identity", an object with a "message");
\* NoContent: "content = None"
Content(kind, target, params) == [kind |-> kind, target |-> target, params |-> params]

NoContent == Content("None", "", "null")

Targets ==
  {"tool_agent", "rag_agent", "identity_agent", "guardrail_agent", "reject", "direct_reply",
   "unknown_agent"}

Contents ==
  {Content("text", "", "null"), Content("invalid_json", "", "null")}
  \cup {Content("command", t, p) : t \in Targets, p \in {"null", "object", "identity", "message"}}

\* what self.llm.invoke(messages) does in the routing loop
RoutingOutcomes ==
  {[raised |-> TRUE, error |-> e, content |-> NoContent] : e \in LlmErrors}
  \cup {[raised |-> FALSE, error |-> <<>>, content |-> c] : c \in Contents}

\* what the LLM of _rephrase_query does: it raises, or it answers with a
\* query, with ' hello\n', with '"failed"', with '"' or with nothing
RephraseOutcomes ==
  {[raised |-> TRUE, content |-> <<>>]}
  \cup {[raised |-> FALSE, content |-> q] :
          q \in UserQueries \cup {<<>>, <<" ", "h", "e", "l", "l", "o", "\n">>,
                                  <<"\"", "f", "a", "i", "l", "e", "d", "\"">>,
                                  <<"\"">>}}

\* "if new_query.startswith('"') and new_query.endswith('"'): new_query[1:-1]"
Unquote(new_query) ==
  IF Len(new_query) >= 1 /\ new_query[1] = "\"" /\ new_query[Len(new_query)] = "\""
  THEN SubSeq(new_query, 2, Len(new_query) - 1)
  ELSE new_query

\* _rephrase_query
_rephrase_query(q, llm) == IF llm.raised THEN q ELSE Unquote(Strip(llm.content))

\* what self.rag_worker.execute hands the fallback: it raises or returns
\* what is not a JSON object, or returns JSON with its answer and its chunks
RagData(raised, answer, chunks) == [raised |-> raised, answer |-> answer, chunks |-> chunks]

RagResults ==
  {RagData(TRUE, "", <<>>)}
  \cup {RagData(FALSE, a, c) : a \in {"", "RuPay is a card payment network."},
                               c \in {<<>>, <<"pp pp">>}}

\* what chat returns: a text (with what an f-string puts after it), the
\* routing content itself, the dictionary of the final synthesis (detail:
\* its 'data'), or the exception that leaves it
Reply(kind, text, detail) == [kind |-> kind, text |-> text, detail |-> detail]

NoReply == Reply("none", "", "")

REFUSAL == "Sorry, I cannot assist with that request. Please let me know if you have any queries related to RuPay, RuPay transactions, or general NPCI-related topics."
ONLY_RUPAY == "Sorry, I can only help with RuPay, RuPay transactions, and NPCI-related questions."
TROUBLE_CONNECTING == "I'm having trouble connecting to my AI service right now. Please check your internet or try again later."
PLEASE_REPHRASE == "I didn't quite catch that. Could you please rephrase your query?"
PROVIDE_DETAILS == "I can help you check your failed transaction. Please provide: date, amount, card last 4 digits, and approximate time."
TECHNICAL_DIFFICULTIES == "I'm experiencing technical difficulties. Could you rephrase your question?"
PLEASE_CLARIFY == "Could you please clarify?"
NOT_PROCESSED == "I apologize, but I couldn't process that request correctly. Could you please rephrase?"
INVALID_JSON == "Error: LLM generated invalid JSON.\nRaw output: "
WORKER_ERROR == "Error during worker execution: "

\* the fallback of the except block, lines 199 to 234: the reply it returns,
\* or NoReply when no branch returns
FallbackReply(error_msg, user_query, rag) ==
  IF ConnectionFailed(error_msg) THEN Reply("text", TROUBLE_CONNECTING, "")
  ELSE IF NotCaught(error_msg) THEN Reply("text", PLEASE_REPHRASE, "")
  ELSE IF AnyWordIn(user_query, NON_RUPAY_WORDS) THEN Reply("text", ONLY_RUPAY, "")
  ELSE IF AnyWordIn(user_query, TRANSACTION_WORDS) THEN Reply("text", PROVIDE_DETAILS, "")
  ELSE IF AnyWordIn(user_query, GENERAL_WORDS)
  THEN IF rag.raised THEN Reply("text", TECHNICAL_DIFFICULTIES, "")
       ELSE IF rag.answer # "" THEN Reply("text", rag.answer, "")
       ELSE IF rag.chunks # <<>> THEN Reply("text", rag.chunks[1], "")
       ELSE NoReply
  ELSE Reply("text", ONLY_RUPAY, "")

\* the "message" the router puts in the parameters of a direct_reply
RouterMessage == "Please provide the date, amount and card last 4 digits."

\* what a worker does, and what the LLM of the final synthesis does: each
\* returns, raises, or raises a json.JSONDecodeError
WorkerOutcomes == {"returns", "raises", "raises_json"}
SynthesisOutcomes == {"answers", "answers_json", "raises", "raises_json"}

\* steps 3 and 4 of chat on a JSON command; "except json.JSONDecodeError"
\* comes before "except Exception", and its f-string reads `content`, which
\* the loop over a non-empty history has set to the last message's content
Dispatch(command, worker, synthesis, has_history) ==
  IF command.target \in {"tool_agent", "rag_agent"} /\ worker = "raises_json"
  THEN Reply("text", INVALID_JSON, "content")
  ELSE IF command.target \in {"tool_agent", "rag_agent"} /\ worker = "raises"
  THEN Reply("text", WORKER_ERROR, "worker")
  ELSE IF command.target \in {"identity_agent", "guardrail_agent", "direct_reply"}
          /\ command.params = "null"
  THEN Reply("text", WORKER_ERROR, "'NoneType' object has no attribute 'get'")
  ELSE IF command.target \in {"guardrail_agent", "reject"} THEN Reply("text", ONLY_RUPAY, "")
  ELSE IF command.target = "direct_reply"
  THEN Reply("text", IF command.params = "message" THEN RouterMessage ELSE PLEASE_CLARIFY, "")
  ELSE IF synthesis = "raises_json"
  THEN Reply("text", INVALID_JSON, IF has_history THEN "history_content" ELSE "content")
  ELSE IF synthesis = "raises" THEN Reply("text", WORKER_ERROR, "synthesis")
  ELSE IF synthesis = "answers_json" THEN Reply("text", NOT_PROCESSED, "")
  ELSE Reply("dict", "final_content",
             IF command.target \in {"tool_agent", "rag_agent"} THEN "worker_result" ELSE "None")

\* chat from step 2 on
ParseReply(content, worker, synthesis, has_history) ==
  IF content = NoContent
  THEN Reply("raised", "AttributeError", "'NoneType' object has no attribute 'find'")
  ELSE IF content.kind = "text" THEN Reply("content", "", "")
  ELSE IF content.kind = "invalid_json" THEN Reply("text", INVALID_JSON, "content")
  ELSE Dispatch(content, worker, synthesis, has_history)

ChatIdle ==
  /\ m_user_query = <<>>
  /\ m_current_query = <<>>
  /\ m_attempt = 0
  /\ m_content = NoContent
  /\ m_error_msg = <<>>
  /\ m_routed = <<>>
  /\ m_pc = "idle"
  /\ m_reply = NoReply

ChatUnchanged ==
  UNCHANGED <<ingestVars, retrievalVars, chunkVars, serveVars, cleanVars, genVars, callVars, pipeVars>>

\* chat is called: the guardrail pre-check
ChatBegin(user_query, is_safe) ==
  /\ m_pc = "idle"
  /\ m_user_query' = user_query
  /\ m_current_query' = user_query
  /\ m_pc' = IF is_safe THEN "route" ELSE "done"
  /\ m_reply' = IF is_safe THEN NoReply ELSE Reply("text", REFUSAL, "")
  /\ UNCHANGED <<m_attempt, m_content, m_error_msg, m_routed>>
  /\ ChatUnchanged

\* the try block of the loop: self.llm.invoke(messages); on an exception,
\* "error_msg = str(e).lower()"
Route(llm) ==
  /\ m_pc = "route"
  /\ m_attempt < ROUTING_ATTEMPTS
  /\ m_routed' = Append(m_routed, m_current_query)
  /\ m_content' = IF llm.raised THEN m_content ELSE llm.content
  /\ m_error_msg' = IF llm.raised THEN Lower(llm.error) ELSE m_error_msg
  /\ m_pc' = IF ~llm.raised THEN "parse" ELSE IF m_attempt = 0 THEN "rephrase" ELSE "fallback"
  /\ UNCHANGED <<m_user_query, m_current_query, m_attempt, m_reply>>
  /\ ChatUnchanged

\* "if attempt == 0": the rephrased query, and the retry when it differs
Rephrase(llm) ==
  /\ m_pc = "rephrase"
  /\ IF _rephrase_query(m_current_query, llm) # <<>>
        /\ _rephrase_query(m_current_query, llm) # m_current_query
     THEN /\ m_current_query' = _rephrase_query(m_current_query, llm)
          /\ m_attempt' = m_attempt + 1
          /\ m_pc' = "route"
     ELSE /\ m_pc' = "fallback"
          /\ UNCHANGED <<m_current_query, m_attempt>>
  /\ UNCHANGED <<m_user_query, m_content, m_error_msg, m_routed, m_reply>>
  /\ ChatUnchanged

\* the fallback of the except block: it returns, or the loop goes on
Fallback(rag) ==
  /\ m_pc = "fallback"
  /\ m_reply' = FallbackReply(m_error_msg, m_user_query, rag)
  /\ IF FallbackReply(m_error_msg, m_user_query, rag) # NoReply
     THEN m_pc' = "done" /\ UNCHANGED m_attempt
     ELSE /\ m_attempt' = m_attempt + 1
          /\ m_pc' = IF m_attempt + 1 < ROUTING_ATTEMPTS THEN "route" ELSE "parse"
  /\ UNCHANGED <<m_user_query, m_current_query, m_content, m_error_msg, m_routed>>
  /\ ChatUnchanged

\* steps 2 to 4: the JSON command, the worker, the final synthesis
Parse(worker, synthesis, has_history) ==
  /\ m_pc = "parse"
  /\ m_reply' = ParseReply(m_content, worker, synthesis, has_history)
  /\ m_pc' = "done"
  /\ UNCHANGED <<m_user_query, m_current_query, m_attempt, m_content, m_error_msg, m_routed>>
  /\ ChatUnchanged

ChatNext ==
  \/ \E q \in UserQueries, is_safe \in BOOLEAN : ChatBegin(q, is_safe)
  \/ \E llm \in RoutingOutcomes : Route(llm)
  \/ \E llm \in RephraseOutcomes : Rephrase(llm)
  \/ \E rag \in RagResults : Fallback(rag)
  \/ \E worker \in WorkerOutcomes, synthesis \in SynthesisOutcomes, has_history \in BOOLEAN :
       Parse(worker, synthesis, has_history)

(***************************************************************************)
(* Specifications.  Spec: one ingestion process and the artifact files.    *)
(* SpecRetrieval: one loaded OnlineRetrieval instance and its calls.       *)
(* SpecChunking: one chunk_by_tokens call.                                 *)
(* SpecServing: one RupayRAG and the query calls of its callers.           *)
(* SpecCleaning: clean_text applied to a raw text, then to its own output. *)
(* SpecGeneration: one generate_answer call.                               *)
(* SpecRetrieve: one retrieve call on a loaded OnlineRetrieval.            *)
(* SpecPipeline: one RupayRAG object, its RAGAgent and the artifact files. *)
(* SpecChat: one MainOrchestrator.chat call.                               *)
(***************************************************************************)
vars == <<ingestVars, retrievalVars, chunkVars, serveVars, cleanVars, genVars, callVars, pipeVars, chatVars>>

ServeIdle ==
  /\ calls = <<>>
  /\ returned = {}
  /\ is_offline_ready = FALSE

Init ==
  /\ IngestInit
  /\ ChatIdle
  /\ PipeIdle
  /\ CallIdle
  /\ GenIdle
  /\ CleanIdle
  /\ r_index = <<>>
  /\ r_metadata = <<>>
  /\ RetrievalIdle
  /\ ChunkIdle
  /\ ServeIdle

Spec == Init /\ [][IngestNext]_vars

InitRetrieval ==
  /\ IngestInit
  /\ ChatIdle
  /\ PipeIdle
  /\ CallIdle
  /\ GenIdle
  /\ CleanIdle
  /\ RetrievalInit
  /\ ChunkIdle
  /\ ServeIdle

SpecRetrieval == InitRetrieval /\ [][RetrievalNext]_vars

InitChunking ==
  /\ IngestInit
  /\ ChatIdle
  /\ PipeIdle
  /\ CallIdle
  /\ GenIdle
  /\ CleanIdle
  /\ r_index = <<>>
  /\ r_metadata = <<>>
  /\ RetrievalIdle
  /\ ChunkInit
  /\ ServeIdle

SpecChunking == InitChunking /\ [][ChunkNext]_vars

InitServing ==
  /\ IngestInit
  /\ ChatIdle
  /\ PipeIdle
  /\ CallIdle
  /\ GenIdle
  /\ CleanIdle
  /\ ChunkIdle
  /\ ServeInit

SpecServing == InitServing /\ [][ServeNext]_vars

InitCleaning ==
  /\ IngestInit
  /\ ChatIdle
  /\ PipeIdle
  /\ CallIdle
  /\ GenIdle
  /\ r_index = <<>>
  /\ r_metadata = <<>>
  /\ RetrievalIdle
  /\ ChunkIdle
  /\ ServeIdle
  /\ CleanInit

SpecCleaning == InitCleaning /\ [][CleanNext]_vars

InitGeneration ==
  /\ IngestInit
  /\ ChatIdle
  /\ PipeIdle
  /\ CallIdle
  /\ r_index = <<>>
  /\ r_metadata = <<>>
  /\ RetrievalIdle
  /\ ChunkIdle
  /\ ServeIdle
  /\ CleanIdle
  /\ GenInit

SpecGeneration == InitGeneration /\ [][GenNext]_vars

InitRetrieve ==
  /\ IngestInit
  /\ ChatIdle
  /\ PipeIdle
  /\ RetrievalInit
  /\ ChunkIdle
  /\ ServeIdle
  /\ CleanIdle
  /\ GenIdle
  /\ CallInit

SpecRetrieve == InitRetrieve /\ [][CallNext]_vars

InitPipeline ==
  /\ IngestInit
  /\ ChatIdle
  /\ r_index = <<>>
  /\ r_metadata = <<>>
  /\ RetrievalIdle
  /\ ChunkIdle
  /\ CleanIdle
  /\ GenIdle
  /\ CallIdle
  /\ PipeInit

SpecPipeline == InitPipeline /\ [][PipeNext]_vars

InitChat ==
  /\ IngestInit
  /\ PipeIdle
  /\ r_index = <<>>
  /\ r_metadata = <<>>
  /\ RetrievalIdle
  /\ ChunkIdle
  /\ ServeIdle
  /\ CleanIdle
  /\ GenIdle
  /\ CallIdle
  /\ ChatIdle

SpecChat == InitChat /\ [][ChatNext]_vars

(***************************************************************************)
(* Claims about ingestion and persistence.                                 *)
(***************************************************************************)
IsSupportedFile(file) == LowerExt(file.ext) \in SUPPORTED_FORMATS /\ file.isfile

Names(files) == [i \in 1..Len(files) |-> files[i].name]

\* C1: after any sequence of ingest_document and ingest_directory calls the
\* index holds as many vectors as the metadata list holds records, and the
\* vector at every position is the embedding of the chunk text recorded at
\* that position.
C1_IndexMetadataParity ==
  /\ Len(index) = Len(chunks_metadata)
  /\ \A i \in 1..Len(index) : index[i] = Embed(chunks_metadata[i].chunk_text)

\* C2: whenever no save_index is running, and after a crash at any point of
\* save_index, the two artifact files are a pair written by one and the same
\* save_index call, each written to its end (or neither exists yet).
C2_PersistedPairFromOneSave ==
  (savePc = "idle" \/ ~alive) =>
    \/ ~diskIndex.exists /\ ~diskMeta.exists
    \/ /\ diskIndex.exists /\ diskMeta.exists
       /\ diskIndex.complete /\ diskMeta.complete
       /\ diskIndex.gen = diskMeta.gen

\* C3: an ingest_document call that raises leaves the in-memory index and
\* the metadata list exactly as they were before the call.
C3_FailedIngestChangesNothing ==
  [][(result'.op = "ingest_document" /\ result'.raised)
       => UNCHANGED <<index, chunks_metadata>>]_vars

\* the files of a listing that ingest_document is to be called on
SupportedOf(dir) == SelectSeq(dir, IsSupportedFile)

\* positions of a listing whose ingest_document call raises
RaisesAt(dir, faults, i) == ingest_document(<<>>, <<>>, dir[i], faults[i]).raised

RECURSIVE GoodNames(_, _, _)
GoodNames(dir, faults, i) ==
  IF i > Len(dir) THEN <<>>
  ELSE (IF IsSupportedFile(dir[i]) /\ ~RaisesAt(dir, faults, i)
        THEN <<dir[i].name>> ELSE <<>>) \o GoodNames(dir, faults, i + 1)

DirectoryContract(dir, faults) ==
  /\ ~result'.raised
  /\ result'.attempted = Names(SupportedOf(dir))
  /\ [i \in 1..Len(result'.stats) |-> result'.stats[i].document_id]
       = GoodNames(dir, faults, 1)
  /\ \A i \in 1..Len(result'.stats) :
       \E j \in 1..Len(chunks_metadata') :
         /\ j > Len(chunks_metadata)
         /\ chunks_metadata'[j].document_id = result'.stats[i].document_id

\* C4: ingest_directory calls ingest_document on every regular file of the
\* listing with a supported extension, in listing order, and on no other; a
\* file whose call raises adds no stats entry, every file whose call returns
\* adds one (and its chunks are in the metadata list); ingest_directory
\* itself never raises.
C4_DirectoryIsolatesFailures ==
  [][result'.op = "ingest_directory"
       => DirectoryContract(result'.files, result'.faults)]_vars

C4_Witness ==
  /\ result.op = "ingest_directory"
  /\ result.attempted = <<"two.TXT", "one.pdf">>
  /\ result.caught = <<"two.TXT">>
  /\ Len(result.stats) = 1
  /\ result.stats[1].document_id = "one.pdf"

\* C5: no step of ingest_document or ingest_directory, and no crash, changes
\* either artifact file: only the steps of save_index write them.
C5_OnlySaveWritesArtifacts ==
  [][result'.op \in {"ingest_document", "ingest_directory", "crash"}
       => UNCHANGED <<diskIndex, diskMeta>>]_vars

\* the process died outside save_index holding chunks ingested after its
\* last save, and the files of that save are still there
C5_Witness ==
  /\ ~alive
  /\ savePc = "idle"
  /\ result.lost
  /\ diskIndex.exists /\ diskIndex.complete
  /\ diskMeta.exists /\ diskMeta.complete
  /\ diskIndex.gen = diskMeta.gen
  /\ diskIndex.data # <<>>

(***************************************************************************)
(* Claims about retrieval.                                                 *)
(***************************************************************************)
\* C6: the token count of the string construct_context returns, passage
\* labels and separators included, is at most max_tokens.
C6_ContextWithinBudget ==
  r_stage = "context" => Len(Encode(r_context)) <= r_max_tokens

\* token_count of the first p chunks of a ranked list
PrefixTokens(chunks, p) == SumSeq([i \in 1..p |-> chunks[i].metadata.token_count])

\* length of the longest prefix whose cumulative token_count fits
LongestFit(chunks, budget) ==
  CHOOSE p \in 0..Len(chunks) :
    /\ PrefixTokens(chunks, p) <= budget
    /\ \A n \in (p + 1)..Len(chunks) : PrefixTokens(chunks, n) > budget

\* the first p chunks as passages 1 to p
Passages(chunks, p) ==
  Join([i \in 1..p |-> PassagePart(i - 1, chunks[i].metadata.chunk_text)])

\* C7: the context construct_context returns is made of exactly the longest
\* prefix of the ranked list whose cumulative token_count does not exceed
\* max_tokens, in rank order; no chunk after the first one that overflows is
\* in it, and when a chunk follows the last included one, adding it would
\* exceed max_tokens.
C7_LongestPrefixIncluded ==
  r_stage = "context" =>
    /\ r_context = Passages(r_ranked, LongestFit(r_ranked, r_max_tokens))
    /\ LongestFit(r_ranked, r_max_tokens) < Len(r_ranked) =>
         PrefixTokens(r_ranked, LongestFit(r_ranked, r_max_tokens) + 1) > r_max_tokens

\* a chunk was left out for overflowing although a later, smaller one would
\* have fitted in what was left of the budget
C7_Witness ==
  /\ r_stage = "context"
  /\ Len(r_ranked) >= 2
  /\ r_context = <<>>
  /\ r_ranked[1].metadata.token_count > r_max_tokens
  /\ r_ranked[2].metadata.token_count <= r_max_tokens

\* the combined score of a candidate at this distance for this chunk text,
\* in floating point
CombinedScore(distance, chunk_text) ==
  FAdd(FMul(FDivInt(7, 10), Similarity(distance)),
       FMul(FDivInt(3, 10), calculate_keyword_overlap(r_question, chunk_text)))

\* the returned chunk e is the candidate c, scored
ScoredFrom(e, c) ==
  /\ e.chunk_index = c.idx
  /\ e.score = CombinedScore(c.dist, e.metadata.chunk_text)

\* C8: every chunk rerank_candidates returns is one of the candidates, its
\* score is 0.7 * (1 / (1 + distance)) + 0.3 * keyword overlap, and that
\* score is at least 0.3; so no candidate scoring under 0.3 is returned.
C8_RerankedAboveThreshold ==
  r_stage = "ranked" =>
    \A i \in 1..Len(r_ranked) :
      /\ \E j \in 1..Len(r_candidates) : ScoredFrom(r_ranked[i], r_candidates[j])
      /\ FGeq(r_ranked[i].score, FDivInt(3, 10))

\* a candidate under the threshold came before one over it, and only the
\* second was returned
C8_Witness ==
  /\ r_stage = "ranked"
  /\ Len(r_candidates) >= 2
  /\ Len(r_ranked) = 1
  /\ r_top_k >= 2
  /\ r_ranked[1].chunk_index = r_candidates[2].idx
  /\ ~FGeq(CombinedScore(r_candidates[1].dist,
                         r_metadata[r_candidates[1].idx + 1].chunk_text),
           FDivInt(3, 10))

\* the candidate at position j, scored, and whether it passes the threshold
CandidateScore(j) ==
  CombinedScore(r_candidates[j].dist,
                ListAt(r_metadata, r_candidates[j].idx).chunk_text)

Passing == {j \in 1..Len(r_candidates) : FGeq(CandidateScore(j), FDivInt(3, 10))}

\* f tells, for each returned chunk, the candidate it is
ReturnedInOrder(f) ==
  /\ \A i \in 1..Len(r_ranked) : ScoredFrom(r_ranked[i], r_candidates[f[i]])
  /\ \A i, j \in 1..Len(r_ranked) :
       i < j => \/ FGt(r_ranked[i].score, r_ranked[j].score)
                \/ r_ranked[i].score = r_ranked[j].score /\ f[i] < f[j]
  /\ \A j \in Passing :
       (\A i \in 1..Len(r_ranked) : f[i] # j) =>
         \A i \in 1..Len(r_ranked) : FGeq(r_ranked[i].score, CandidateScore(j))

\* C9: rerank_candidates returns at most top_k chunks (all the passing ones
\* when they are fewer), in order of non-increasing score, chunks of equal
\* score in the order of the candidates; and every passing candidate that
\* is not returned scores no higher than every returned chunk.
C9_RerankOrderedBest ==
  r_stage = "ranked" =>
    /\ Len(r_ranked) <= r_top_k
    /\ Len(r_ranked) = Min(r_top_k, Cardinality(Passing))
    /\ \E f \in [1..Len(r_ranked) -> 1..Len(r_candidates)] : ReturnedInOrder(f)

\* the sort moved the third candidate to the front, and the two candidates
\* before it, of equal score, follow it in the order they came in
C9_Witness ==
  /\ r_stage = "ranked"
  /\ Len(r_candidates) = 3
  /\ Len(r_ranked) = 3
  /\ r_ranked[1].chunk_index = r_candidates[3].idx
  /\ r_ranked[2].chunk_index = r_candidates[1].idx
  /\ r_ranked[3].chunk_index = r_candidates[2].idx
  /\ FGt(r_ranked[1].score, r_ranked[2].score)
  /\ r_ranked[2].score = r_ranked[3].score

\* C10: every (position, distance) pair retrieve_initial_candidates returns
\* has 0 <= position < len(chunks_metadata), and rerank_candidates reads the
\* metadata list at such positions only: it does not raise IndexError and
\* returns no chunk under another position.
C10_CandidatePositionsGenuine ==
  /\ r_stage # "loaded" =>
       \A j \in 1..Len(r_candidates) :
         0 <= r_candidates[j].idx /\ r_candidates[j].idx < Len(r_metadata)
  /\ r_stage # "raised"
  /\ \A i \in 1..Len(r_ranked) :
       0 <= r_ranked[i].chunk_index /\ r_ranked[i].chunk_index < Len(r_metadata)

(***************************************************************************)
(* Claims about chunking.                                                  *)
(***************************************************************************)
\* C11: the window loop of chunk_by_tokens never runs with a stride
\* chunk_size - overlap that is zero or negative: such a configuration is
\* rejected before any window is cut.
C11_StrideValidated ==
  ~(Len(c_windows) > 0 /\ c_chunk_size - c_overlap <= 0)

\* the call returned, under a configuration with 0 <= overlap < chunk_size
ChunkedAccepted == c_pc = "done" /\ 0 <= c_overlap /\ c_overlap < c_chunk_size

\* the same with a positive overlap
ChunkedOverlapping == ChunkedAccepted /\ c_overlap > 0

\* C12: when chunk_by_tokens returns, no window before the last was dropped,
\* and every token of the document lies in a kept window, or in the last
\* window when that one was dropped for being too short.
C12_KeptChunksCoverTokens ==
  ChunkedAccepted =>
    /\ \A j \in 1..(Len(c_windows) - 1) : c_windows[j].kept
    /\ \A t \in 0..(Len(c_tokens) - 1) :
         \E j \in 1..Len(c_windows) :
           /\ c_windows[j].start <= t /\ t < c_windows[j].stop
           /\ c_windows[j].kept \/ j = Len(c_windows)

\* the windows whose chunk was kept, in the order of the chunks
KeptWindows == SelectSeq(c_windows, LAMBDA w : w.kept)

\* number of tokens two windows have in common
Shared(a, b) ==
  IF Min(a.stop, b.stop) > (IF a.start > b.start THEN a.start ELSE b.start)
  THEN Min(a.stop, b.stop) - (IF a.start > b.start THEN a.start ELSE b.start)
  ELSE 0

OverlapsExactly(kept, i) ==
  \/ Shared(kept[i], kept[i + 1]) = c_overlap
  \/ /\ i + 1 = Len(kept)
     /\ kept[i + 1].stop - kept[i + 1].start < c_chunk_size

\* C13: any two consecutive chunks chunk_by_tokens returns share exactly
\* overlap tokens, unless the second is the last chunk and is truncated
\* (shorter than chunk_size tokens).
C13_ConsecutiveChunksOverlap ==
  ChunkedAccepted =>
    \A i \in 1..(Len(KeptWindows) - 1) : OverlapsExactly(KeptWindows, i)

\* C14: a document of exactly chunk_size tokens yields exactly one chunk,
\* whenever 0 < overlap < chunk_size.
C14_ChunkSizeTokensOneChunk ==
  (ChunkedOverlapping /\ Len(c_tokens) = c_chunk_size) => Len(c_chunks) = 1

\* C15: a document of chunk_size + 1 tokens yields exactly two chunks,
\* whenever 0 < overlap < chunk_size.
C15_OneMoreTokenTwoChunks ==
  (ChunkedOverlapping /\ Len(c_tokens) = c_chunk_size + 1) => Len(c_chunks) = 2

(***************************************************************************)
(* Claims about the minimum length of a chunk (specification Spec).        *)
(***************************************************************************)
\* the windows chunk_by_tokens cuts from `tokens`, from `start` on, whose
\* decoded text has at least MIN_CHUNK_LENGTH characters
RECURSIVE LongWindows(_, _)
LongWindows(tokens, start) ==
  IF ~(start < Len(tokens)) THEN 0
  ELSE (IF Len(WindowText(tokens, start, DEFAULT_CHUNK_SIZE)) >= MIN_CHUNK_LENGTH THEN 1 ELSE 0)
       + LongWindows(tokens, start + (DEFAULT_CHUNK_SIZE - CHUNK_OVERLAP))

RECURSIVE AllWindows(_, _)
AllWindows(tokens, start) ==
  IF ~(start < Len(tokens)) THEN 0
  ELSE 1 + AllWindows(tokens, start + (DEFAULT_CHUNK_SIZE - CHUNK_OVERLAP))

FileTokens(file) == Encode(clean_text(file.text))

\* C16 as stated: every chunk that reaches the metadata list has a
\* token_count of at least the configured minimum length threshold
\* MIN_CHUNK_LENGTH.  The code compares the length in characters, so a
\* chunk of fewer tokens than the threshold is stored.
C16_TokenCountAtLeastMinimum ==
  \A i \in 1..Len(chunks_metadata) : chunks_metadata[i].token_count >= MIN_CHUNK_LENGTH

\* C16 amended: every chunk that reaches the index and the metadata list
\* has a char_count (the length of its text in characters) of at least
\* MIN_CHUNK_LENGTH, and a window whose decoded text is shorter is dropped:
\* a successful ingest_document adds exactly one vector and one record per
\* window that is long enough, and nothing for the others.
C16_ShortWindowsDropped ==
  [][(result'.op = "ingest_document" /\ ~result'.raised /\ index' # index) =>
       /\ Len(index') = Len(index) + LongWindows(FileTokens(result'.files[1]), 0)
       /\ Len(chunks_metadata') =
            Len(chunks_metadata) + LongWindows(FileTokens(result'.files[1]), 0)
       /\ \A i \in 1..Len(chunks_metadata') :
            /\ chunks_metadata'[i].char_count = Len(chunks_metadata'[i].chunk_text)
            /\ chunks_metadata'[i].char_count >= MIN_CHUNK_LENGTH]_vars

\* C16 witness: a document with a window that is too short has been
\* ingested, and only its long window was stored.
C16_Witness ==
  /\ result.op = "ingest_document"
  /\ ~result.raised
  /\ LongWindows(FileTokens(result.files[1]), 0) < AllWindows(FileTokens(result.files[1]), 0)
  /\ result.stats[1].num_chunks = LongWindows(FileTokens(result.files[1]), 0)
  /\ Len(chunks_metadata) = result.stats[1].num_chunks
  /\ Len(index) = Len(chunks_metadata)

(***************************************************************************)
(* Claims about the passage labels (specification SpecRetrieval).          *)
(***************************************************************************)
\* where the labels of a context begin: a chunk text holds no "[", which
\* clean_text removes
LabelStarts(context) ==
  SelectSeq([i \in 1..Len(context) |-> i], LAMBDA i : context[i] = "[")

IsDigit(c) == c \in {"0", "1", "2", "3", "4", "5", "6", "7", "8", "9"}

DigitValue(c) == CHOOSE d \in 0..9 : DigitOf(d) = c

\* the number written in `context` from position i on, acc read so far
RECURSIVE ReadNumber(_, _, _)
ReadNumber(context, i, acc) ==
  IF i <= Len(context) /\ IsDigit(context[i])
  THEN ReadNumber(context, i + 1, acc * 10 + DigitValue(context[i]))
  ELSE acc

\* N of the label "[Passage N]" that begins at position i
LabelNumber(context, i) == ReadNumber(context, i + 9, 0)

\* C17: the passages of the context construct_context returns are labelled
\* [Passage 1], [Passage 2], ... consecutively in output order: the n-th
\* label of the context carries the number n, and the passage under it is a
\* chunk of the ranked list.
C17_LabelsConsecutive ==
  r_stage = "context" =>
    \A n \in 1..Len(LabelStarts(r_context)) :
      /\ SubSeq(r_context, LabelStarts(r_context)[n], LabelStarts(r_context)[n] + 8)
           = <<"[","P","a","s","s","a","g","e"," ">>
      /\ LabelNumber(r_context, LabelStarts(r_context)[n]) = n

\* C17 witness: a context of two passages, cut short by the budget before
\* the end of the ranked list
C17_Witness ==
  /\ r_stage = "context"
  /\ Len(LabelStarts(r_context)) = 2
  /\ Len(r_ranked) > 2

(***************************************************************************)
(* Claims about repeated and concurrent queries (specification             *)
(* SpecServing).                                                           *)
(***************************************************************************)
\* what retrieve returns for each question when run alone, from its first
\* line to its last, on each pair of artifacts
Alone ==
  [l \in ServeLoadable |-> [q \in AskedQuestions |-> retrieve(l.index, l.meta, q)]]

\* C19: a step of retrieve leaves the loaded index and the loaded metadata
\* list as they are, and whatever the interleaving of the calls of the
\* callers, a call that returns hands back what retrieve returns for its
\* question when run alone, from its first line to its last.
C19_ConcurrentRetrieveAsAlone ==
  [][/\ r_index' = r_index
     /\ r_metadata' = r_metadata
     /\ \A r \in returned' \ returned :
          r.retrieved =>
            r.retrieval_result = Alone[[index |-> r_index, meta |-> r_metadata]][r.question]]_vars

\* C19 witness: two callers are inside retrieve at once with different
\* questions, one with its context built, the other between re-ranking and
\* context construction, and a call that ran among others has returned
C19_Witness ==
  /\ \E c \in 1..MaxCallers, d \in 1..MaxCallers :
       /\ c # d
       /\ calls[c].pc = "retrieved" /\ calls[c].context # <<>>
       /\ calls[d].pc = "ranked"
       /\ calls[c].question # calls[d].question
  /\ \E r \in returned : r.retrieved /\ r.retrieval_result.num_chunks > 0

\* C20: on a RupayRAG whose loaded index and metadata list are those of a
\* freshly initialised index into which nothing was ever ingested, every
\* query retrieves numChunks = 0 and the empty context, and generate_answer
\* returns the fixed fallback answer.
C20_EmptyCorpusFallback ==
  (is_offline_ready /\ r_index = <<>> /\ r_metadata = <<>>) =>
    \A r \in returned :
      /\ r.retrieved
      /\ ~r.retrieval_result.raised
      /\ r.retrieval_result.num_chunks = 0
      /\ r.retrieval_result.context = <<>>
      /\ r.answered
      /\ r.answer = Answer(FALSE, NO_CONTEXT_RESPONSE)

(***************************************************************************)
(* Claims about clean_text (specification SpecCleaning).                   *)
(***************************************************************************)
HasAdjacentWhitespace(text) ==
  \E i \in 1..(Len(text) - 1) : IsSpace(text[i]) /\ IsSpace(text[i + 1])

\* C30: clean_text is idempotent, cleaning its output again returns it
\* unchanged; and its output holds no two adjacent whitespace characters and
\* no leading or trailing whitespace.
C30_CleanTextIdempotent ==
  /\ Len(x_cleaned) >= 1 =>
       /\ ~HasAdjacentWhitespace(x_cleaned[1])
       /\ x_cleaned[1] # <<>> =>
            ~IsSpace(x_cleaned[1][1]) /\ ~IsSpace(x_cleaned[1][Len(x_cleaned[1])])
  /\ Len(x_cleaned) >= 2 => x_cleaned[2] = x_cleaned[1]

(***************************************************************************)
(* Claims about generate_answer (specification SpecGeneration).            *)
(***************************************************************************)
\* empty, or made of whitespace only
Blank(context) == \A i \in 1..Len(context) : context[i] \in {" ", "\n"}

\* C23: generate_answer called with an empty or whitespace-only context
\* returns the fixed fallback answer with has_context = false and does not
\* invoke the model; with any other context it invokes the model exactly
\* once.
C23_BlankContextNoModelCall ==
  g_pc = "done" =>
    IF Blank(g_context)
    THEN /\ g_result.answer = Answer(FALSE, NO_CONTEXT_RESPONSE)
         /\ ~g_result.has_context
         /\ g_llm_calls = 0
    ELSE g_llm_calls = 1

\* C23 witness: a call with a context of whitespace only has returned
C23_Witness ==
  /\ g_pc = "done"
  /\ g_context # <<>>
  /\ Blank(g_context)
  /\ g_llm_calls = 0

\* C24: generate_answer never raises: when the model call fails, it returns
\* an answer whose text reports the error, after the prefix "Error
\* generating answer: ", and which carries the error in its 'error' entry;
\* an answer the model gave carries no 'error' entry and no such prefix.
C24_ModelFailureReported ==
  [][\A llm \in GenLlmOutcomes :
       GenerateAnswer(llm) =>
         /\ ~g_result'.raised
         /\ (llm.raised /\ ~Blank(g_context)) =>
              /\ g_result'.answer = Answer(TRUE, llm.error)
              /\ g_result'.has_error
              /\ g_result'.error = llm.error
         /\ ~(llm.raised /\ ~Blank(g_context)) =>
              /\ ~g_result'.has_error
              /\ ~g_result'.answer.error_prefix]_vars

\* C24 witness: the model call of a generate_answer call failed, and the
\* call returned an answer that reports it
C24_Witness ==
  /\ g_pc = "done"
  /\ g_llm_calls = 1
  /\ g_result.has_error
  /\ g_result.answer.error_prefix

(***************************************************************************)
(* Claims about the result of retrieve (specification SpecRetrieve).       *)
(***************************************************************************)
\* C25: every dictionary retrieve returns holds 'context', 'num_chunks' and
\* 'question', the preprocessed question, and holds 'chunks' only when
\* return_metadata is true, whether chunks survived re-ranking or not.
C25_ResultKeys ==
  t_pc = "done" =>
    /\ {"context", "num_chunks", "question"} \subseteq t_result.keys
    /\ t_result.question = preprocess_question(t_question)
    /\ "chunks" \in t_result.keys => t_return_metadata

\* C27: the num_chunks retrieve reports is the number of passages in the
\* context it returns; num_chunks > 0 implies a context that is not empty,
\* and num_chunks = 0 exactly when the context is the empty string.
C27_NumChunksCountsPassages ==
  t_pc = "done" =>
    /\ t_result.num_chunks = Len(LabelStarts(t_result.context))
    /\ t_result.num_chunks = 0 <=> t_result.context = <<>>

\* C27 witness: retrieve returned one passage although the index held more
\* chunks than that, the others having scored under the threshold
C27_Witness ==
  /\ t_pc = "done"
  /\ Len(r_index) >= 2
  /\ Len(r_metadata) >= 2
  /\ t_result.num_chunks = 1
  /\ Len(LabelStarts(t_result.context)) = 1

(***************************************************************************)
(* Claims about the RupayRAG object and the RAGAgent built on it.          *)
(***************************************************************************)
FilesMissing == ~index_file.exists \/ ~metadata_file.exists

\* C21: OnlineRetrieval() raises when the index file or the metadata file
\* does not exist, a loaded retrieval component was read from two existing
\* files, and while a file is missing no query is handed to a retrieval
\* component: query returns the "not initialized" answer, never the answer
\* given when the corpus has no matching content, and so does execute.
C21_MissingArtifactsFailLoudly ==
  /\ (outcome.op = "OnlineRetrieval" /\ FilesMissing) => outcome.raised
  /\ (rag_pc = "alive" /\ retrieval.loaded) => ~FilesMissing
  /\ (outcome.op = "query" /\ FilesMissing) =>
       /\ ~outcome.result.searched
       /\ outcome.result.answer = Answer(FALSE, NOT_INITIALIZED)
       /\ outcome.result.keys = {"documents", "answer"}
  /\ (outcome.op = "execute" /\ FilesMissing) =>
       outcome.result.answer \in {Answer(FALSE, NOT_INITIALIZED),
                                  Answer(FALSE, "Please provide a question.")}

\* C21 witness: OnlineRetrieval() was called with the index file on disk and
\* the metadata file missing, and raised FileNotFoundError.
C21_Witness ==
  /\ outcome.op = "OnlineRetrieval"
  /\ index_file.exists
  /\ ~metadata_file.exists
  /\ outcome.raised
  /\ outcome.error = "FileNotFoundError"

\* C22: an index saved under another dimension than EMBEDDING_DIMENSION is
\* refused when it is loaded, so no retrieval component holds one and no
\* query reaches the search of one.
C22_DimensionCheckedAtLoad ==
  /\ (outcome.op = "OnlineRetrieval" /\ index_file.exists
        /\ index_file.d # EMBEDDING_DIMENSION) => outcome.raised
  /\ (rag_pc = "alive" /\ retrieval.loaded) => retrieval.d = EMBEDDING_DIMENSION
  /\ (outcome.op = "query" /\ outcome.result.searched) =>
       retrieval.d = EMBEDDING_DIMENSION

\* C26: the JSON of execute carries the texts of the retrieved chunks: with
\* num_chunks > 0 there are min(3, num_chunks) of them, and there is none
\* only when num_chunks = 0.
C26_ChunksHoldRetrievedTexts ==
  outcome.op = "execute" =>
    /\ outcome.result.num_chunks > 0 =>
         Len(outcome.result.chunks) = Min(REFERENCE_CHUNKS, outcome.result.num_chunks)
    /\ outcome.result.chunks = <<>> => outcome.result.num_chunks = 0

\* C28: a RupayRAG that is ready holds both components, loaded from the
\* files of the latest completed save, and no query raises AttributeError
\* on a component that is None.
C28_ReadyImpliesComponentsLoaded ==
  /\ (rag_pc = "alive" /\ is_offline_ready) =>
       /\ retrieval.loaded
       /\ generation.loaded
       /\ retrieval.gen_index = save_completed
       /\ retrieval.gen_meta = save_completed
  /\ outcome.op = "query" => outcome.error # "AttributeError"

(***************************************************************************)
(* Claims about MainOrchestrator.chat.                                     *)
(***************************************************************************)
\* C29: whatever the routing LLM, the rephrasing and the workers do, chat
\* returns a reply and raises nothing; it hands the routing LLM at most two
\* queries, the second one a rephrased query that differs from the first;
\* and it comes to the JSON-command parsing only with the content of a
\* routing call that succeeded.
C29_ChatAlwaysReplies ==
  /\ m_reply.kind # "raised"
  /\ Len(m_routed) <= ROUTING_ATTEMPTS
  /\ Len(m_routed) = ROUTING_ATTEMPTS => m_routed[2] # m_routed[1]
  /\ m_pc = "parse" => m_content # NoContent

====
